---- MODULE Spec2Model ----
(***************************************************************************)
(* A model of factuser's document field inference engine                   *)
(* (src/factuser-v2.py, class PdfSorter and the module-level helpers).     *)
(*                                                                         *)
(* Text is modelled as a sequence of characters, each character a string.  *)
(* Characters outside ASCII are written by name: "EM_DASH" is U+2014,      *)
(* "a_acute" is U+00E1, and so on.  Python's None is the value None.       *)
(*                                                                         *)
(* PdfSorter defines several of its methods twice; Python binds a method   *)
(* name to the LAST definition of the class body.  The handlers of the     *)
(* model are the bound (last) definitions, as in the running program; a    *)
(* method with a single definition is modelled from that definition.       *)
(***************************************************************************)
EXTENDS Integers, Sequences, FiniteSets, TLC

VARIABLES
    files,              \* self.files: the working list of file names
    idx,                \* self.idx
    page,               \* self.page
    form,               \* the text of the nine line edits of the metadata form
    ai_cache,           \* self.ai_cache: file name -> field key -> candidates
    csv_file,           \* the lines of CSV_PATH on disk, without the header
    ai_cache_csv,       \* the lines of AI_CACHE_CSV on disk, without the header
    csv_rows,           \* self.csv_rows
    seen_by_filename,   \* self.seen_by_filename
    freq_provider,      \* self.freq_provider
    freq_taxid,         \* self.freq_taxid
    freq_iban,          \* self.freq_iban
    group_index,        \* self.group_index
    models,             \* the string lists of the three autocomplete models
    sugg_fields,        \* self.sugg_fields: field key -> combo box (items, current index)
    ingested,           \* history: the CSV lines _index_csv_row was called with since the last clear
    last                \* history: the last handler that ran, with its inputs

vars == <<files, idx, page, form, ai_cache, csv_file, ai_cache_csv, csv_rows, seen_by_filename,
          freq_provider, freq_taxid, freq_iban, group_index, models, sugg_fields,
          ingested, last>>

indexVars == <<csv_rows, seen_by_filename, freq_provider, freq_taxid, freq_iban,
               group_index, models>>

(***************************************************************************)
(* Bounds of the model.                                                    *)
(***************************************************************************)
MaxRows == 3

MaxHistory == 2

MaxAi == 2

MaxSaves == 1

MaxAiLines == 1

\* the number of save_ai_cache_entry calls of SpecCache
MaxCacheSaves == 3

(***************************************************************************)
(* Text.                                                                   *)
(***************************************************************************)
None == <<"None">>

LEAVE_UNCHANGED ==
    <<"EM_DASH", " ", "l", "e", "a", "v", "e", " ",
      "u", "n", "c", "h", "a", "n", "g", "e", "d", " ", "EM_DASH">>

CLEAR_FIELD ==
    <<"EM_DASH", " ", "c", "l", "e", "a", "r", " ", "f", "i", "e", "l", "d", " ", "EM_DASH">>

UpperChars ==
    <<"A", "B", "C", "D", "E", "F", "G", "H", "I", "J", "K", "L", "M",
      "N", "O", "P", "Q", "R", "S", "T", "U", "V", "W", "X", "Y", "Z",
      "A_acute", "E_acute", "I_acute", "O_acute", "U_acute", "U_uml", "N_tilde">>

LowerChars ==
    <<"a", "b", "c", "d", "e", "f", "g", "h", "i", "j", "k", "l", "m",
      "n", "o", "p", "q", "r", "s", "t", "u", "v", "w", "x", "y", "z",
      "a_acute", "e_acute", "i_acute", "o_acute", "u_acute", "u_uml", "n_tilde">>

AccentedChars ==
    <<"a_acute", "e_acute", "i_acute", "o_acute", "u_acute", "u_uml",
      "A_acute", "E_acute", "I_acute", "O_acute", "U_acute", "U_uml",
      "n_tilde", "N_tilde">>

PlainChars ==
    <<"a", "e", "i", "o", "u", "u", "A", "E", "I", "O", "U", "U", "n", "N">>

Digits == {"0", "1", "2", "3", "4", "5", "6", "7", "8", "9"}

AsciiLower ==
    {"a", "b", "c", "d", "e", "f", "g", "h", "i", "j", "k", "l", "m",
     "n", "o", "p", "q", "r", "s", "t", "u", "v", "w", "x", "y", "z"}

Whitespace == {" ", "\t", "\n", "\r"}

\* tr(c, from, to): the character c translated by a table given as two sequences
tr(c, from, to) ==
    IF \E i \in DOMAIN from : from[i] = c
    THEN to[CHOOSE i \in DOMAIN from : from[i] = c]
    ELSE c

\* str.lower()
lower(s) == [i \in DOMAIN s |-> tr(s[i], UpperChars, LowerChars)]

RECURSIVE lstrip(_)
lstrip(s) ==
    IF s /= <<>> /\ Head(s) \in Whitespace THEN lstrip(Tail(s)) ELSE s

RECURSIVE rstrip(_)
rstrip(s) ==
    IF s /= <<>> /\ s[Len(s)] \in Whitespace THEN rstrip(SubSeq(s, 1, Len(s) - 1)) ELSE s

\* str.strip()
strip(s) == rstrip(lstrip(s))

_strip_accents(s) == [i \in DOMAIN s |-> tr(s[i], AccentedChars, PlainChars)]

\* the longest prefix of s whose characters are all in the set cls
RECURSIVE run(_, _)
run(s, cls) ==
    IF s /= <<>> /\ Head(s) \in cls THEN <<Head(s)>> \o run(Tail(s), cls) ELSE <<>>

\* the longest prefix of s whose characters are all outside the set cls
RECURSIVE runNot(_, _)
runNot(s, cls) ==
    IF s /= <<>> /\ Head(s) \notin cls THEN <<Head(s)>> \o runNot(Tail(s), cls) ELSE <<>>

drop(s, n) == SubSeq(s, n + 1, Len(s))

\* re.sub(r'[^a-z0-9]+', ' ', s)
RECURSIVE sub_non_alnum(_)
sub_non_alnum(s) ==
    IF s = <<>> THEN <<>>
    ELSE IF Head(s) \in AsciiLower \cup Digits
         THEN <<Head(s)>> \o sub_non_alnum(Tail(s))
         ELSE <<" ">> \o sub_non_alnum(drop(s, Len(runNot(s, AsciiLower \cup Digits))))

LEGAL_SUFFIXES ==
    { <<"g", "m", "b", "h">>, <<"u", "g">>, <<"a", "g">>, <<"k", "g">>, <<"m", "b", "h">>,
      <<"c", "o">>, <<"i", "n", "c">>, <<"l", "l", "c">>, <<"l", "t", "d">>,
      <<"t", "h", "e">>, <<"s", "l", "l">>, <<"s", "l">>, <<"s", "r", "l">>,
      <<"s", "a">>, <<"s", "a", "s">>, <<"s", "p", "a">> }

\* re.sub(r'\b(gmbh|ug|...|spa)\b', ' ', s): a match starts and ends at a word
\* boundary, so it is a whole maximal run of word characters
RECURSIVE sub_legal_suffixes(_)
sub_legal_suffixes(s) ==
    IF s = <<>> THEN <<>>
    ELSE IF Head(s) \in AsciiLower \cup Digits \cup {"_"}
         THEN LET w == run(s, AsciiLower \cup Digits \cup {"_"})
              IN (IF w \in LEGAL_SUFFIXES THEN <<" ">> ELSE w)
                     \o sub_legal_suffixes(drop(s, Len(w)))
         ELSE <<Head(s)>> \o sub_legal_suffixes(Tail(s))

\* re.sub(r'\s+', ' ', s)
RECURSIVE sub_whitespace(_)
sub_whitespace(s) ==
    IF s = <<>> THEN <<>>
    ELSE IF Head(s) \in Whitespace
         THEN <<" ">> \o sub_whitespace(drop(s, Len(run(s, Whitespace))))
         ELSE <<Head(s)>> \o sub_whitespace(Tail(s))

\* normalize_provider without the removal of the legal-entity words
normalize_provider_keeps_suffixes(p) ==
    IF p = <<>> THEN <<>>
    ELSE strip(sub_whitespace(sub_non_alnum(_strip_accents(strip(lower(p))))))

normalize_provider(p) ==
    IF p = <<>> THEN <<>>
    ELSE strip(sub_whitespace(sub_legal_suffixes(sub_non_alnum(
             _strip_accents(strip(lower(p)))))))

\* the line edits of the metadata form
FormKeys == {"year", "month", "day", "provider", "invoice", "total", "card", "taxid", "iban"}

\* the field keys of self.sugg_fields, in the order __init__ creates them
FIELD_KEYS == <<"date", "provider", "invoice", "total", "taxid", "iban">>

FieldKeys == {FIELD_KEYS[i] : i \in DOMAIN FIELD_KEYS}

(***************************************************************************)
(* Dictionaries, counters and CSV rows.                                    *)
(***************************************************************************)
EmptyDict == [k \in {} |-> <<>>]

\* dict.get(k, default): the default is returned only when the key is absent;
\* a key that is present with the value None yields None
get(d, k, default) == IF k \in DOMAIN d THEN d[k] ELSE default

\* defaultdict(list)[k].append(v)
dict_append(d, k, v) ==
    [x \in DOMAIN d \cup {k} |->
        IF x = k THEN (IF k \in DOMAIN d THEN Append(d[k], v) ELSE <<v>>) ELSE d[x]]

\* Counter()[k] += 1
counter_inc(c, k) ==
    [x \in DOMAIN c \cup {k} |->
        IF x = k THEN (IF k \in DOMAIN c THEN c[k] + 1 ELSE 1) ELSE c[x]]

\* the header of CSV_PATH, as _append_csv writes it
CSV_HEADER ==
    <<"filename", "year", "month", "day", "provider", "invoice", "total", "card",
      "taxid", "iban">>

\* csv.DictReader: one dictionary per line, keyed by the header; the columns a
\* short line lacks are present with the value None (restval)
DictReader(line) ==
    [k \in {CSV_HEADER[i] : i \in DOMAIN CSV_HEADER} |->
        LET i == CHOOSE j \in DOMAIN CSV_HEADER : CSV_HEADER[j] = k
        IN IF i <= Len(line) THEN line[i] ELSE None]

\* an f-string field: None is formatted as the text None
fmt(v) == IF v = None THEN <<"N", "o", "n", "e">> ELSE v

(***************************************************************************)
(* The record index (RecordIndex of the spec): csv_rows, seen_by_filename, *)
(* the three frequency counters and group_index, as one record.  The       *)
(* autocomplete models are sorted string lists; a sorted list without      *)
(* duplicates is represented by the set of its elements.                   *)
(***************************************************************************)
EmptyIndex ==
    [csv_rows |-> <<>>, seen_by_filename |-> EmptyDict, freq_provider |-> EmptyDict,
     freq_taxid |-> EmptyDict, freq_iban |-> EmptyDict, group_index |-> EmptyDict,
     models |-> [provider |-> {}, taxid |-> {}, iban |-> {}]]

Index ==
    [csv_rows |-> csv_rows, seen_by_filename |-> seen_by_filename,
     freq_provider |-> freq_provider, freq_taxid |-> freq_taxid,
     freq_iban |-> freq_iban, group_index |-> group_index, models |-> models]

SetIndex(ix) ==
    /\ csv_rows' = ix.csv_rows
    /\ seen_by_filename' = ix.seen_by_filename
    /\ freq_provider' = ix.freq_provider
    /\ freq_taxid' = ix.freq_taxid
    /\ freq_iban' = ix.freq_iban
    /\ group_index' = ix.group_index
    /\ models' = ix.models

IndexIs(ix) ==
    /\ csv_rows = ix.csv_rows
    /\ seen_by_filename = ix.seen_by_filename
    /\ freq_provider = ix.freq_provider
    /\ freq_taxid = ix.freq_taxid
    /\ freq_iban = ix.freq_iban
    /\ group_index = ix.group_index
    /\ models = ix.models

\* the grouping key of a row whose provider, invoice and total are texts
group_key(row) ==
    <<normalize_provider(strip(get(row, "provider", <<>>))),
      strip(get(row, "invoice", <<>>)),
      strip(get(row, "total", <<>>)),
      fmt(get(row, "year", <<>>)) \o <<"-">> \o fmt(get(row, "month", <<>>))
          \o <<"-">> \o fmt(get(row, "day", <<>>))>>

\* _index_csv_row: the statements run in order, and .strip() on None raises
\* AttributeError, which leaves what the earlier statements did in place.
\* The result is the index left behind and whether the call raised.
_index_csv_row(ix, row) ==
    LET fn == get(row, "filename", <<>>)
        s1 == [ix EXCEPT !.csv_rows = Append(@, row),
                         !.seen_by_filename = dict_append(@, fn, row)]
        prov == get(row, "provider", <<>>)
        tax  == get(row, "taxid", <<>>)
        iban == get(row, "iban", <<>>)
        s2 == [s1 EXCEPT
                 !.freq_provider = IF strip(prov) /= <<>> THEN counter_inc(@, strip(prov)) ELSE @,
                 !.freq_taxid    = IF strip(tax) /= <<>> THEN counter_inc(@, strip(tax)) ELSE @,
                 !.freq_iban     = IF strip(iban) /= <<>> THEN counter_inc(@, strip(iban)) ELSE @]
        s3 == [s2 EXCEPT !.group_index = dict_append(@, group_key(row), row)]
    IN IF prov = None \/ tax = None \/ iban = None
       THEN [ix |-> s1, raised |-> TRUE]
       ELSE IF get(row, "invoice", <<>>) = None \/ get(row, "total", <<>>) = None
            THEN [ix |-> s2, raised |-> TRUE]
            ELSE [ix |-> s3, raised |-> FALSE]

\* _refresh_autocomplete_models
_refresh_autocomplete_models(ix) ==
    [ix EXCEPT !.models = [provider |-> DOMAIN ix.freq_provider,
                           taxid |-> DOMAIN ix.freq_taxid,
                           iban |-> DOMAIN ix.freq_iban]]

\* the loop of _load_csv_suggestions_and_indices over the reader: the first row
\* that raises ends it (the except clause is outside the loop).  calls counts
\* the rows _index_csv_row was called with.
RECURSIVE index_rows(_, _, _)
index_rows(ix, lines, calls) ==
    IF lines = <<>> THEN [ix |-> ix, raised |-> FALSE, calls |-> calls]
    ELSE LET r == _index_csv_row(ix, DictReader(Head(lines)))
         IN IF r.raised THEN [ix |-> r.ix, raised |-> TRUE, calls |-> calls + 1]
            ELSE index_rows(r.ix, Tail(lines), calls + 1)

\* a rebuild that forgets self.group_index.clear()
clear_indices_keeps_groups(ix) ==
    [ix EXCEPT !.csv_rows = <<>>, !.seen_by_filename = EmptyDict,
               !.freq_provider = EmptyDict, !.freq_taxid = EmptyDict,
               !.freq_iban = EmptyDict]

\* the six clear() calls that open _load_csv_suggestions_and_indices
clear_indices(ix) ==
    [ix EXCEPT !.csv_rows = <<>>, !.seen_by_filename = EmptyDict,
               !.freq_provider = EmptyDict, !.freq_taxid = EmptyDict,
               !.freq_iban = EmptyDict, !.group_index = EmptyDict]

\* _load_csv_suggestions_and_indices on an index ix, CSV_PATH holding lines
_load_csv_suggestions_and_indices(ix, lines) ==
    LET r == index_rows(clear_indices(ix), lines, 0)
    IN [r EXCEPT !.ix = _refresh_autocomplete_models(r.ix)]

(***************************************************************************)
(* _csv_top_for_file.  A Counter is a dictionary, which keeps its keys in  *)
(* insertion order: it is modelled as a sequence of <<value, count>> in    *)
(* that order.  most_common() is sorted(items, key=count, reverse=True),   *)
(* a stable sort.                                                          *)
(***************************************************************************)
\* x or ""
or_empty(x) == IF x = None THEN <<>> ELSE x

\* cnt[v] += 1
count_seq_inc(cnt, v) ==
    IF \E i \in DOMAIN cnt : cnt[i][1] = v
    THEN [i \in DOMAIN cnt |-> IF cnt[i][1] = v THEN <<v, cnt[i][2] + 1>> ELSE cnt[i]]
    ELSE Append(cnt, <<v, 1>>)

\* the loop that counts the stripped, non-empty values of a field
RECURSIVE count_values(_, _, _)
count_values(rows, field, cnt) ==
    IF rows = <<>> THEN cnt
    ELSE LET val == strip(or_empty(get(Head(rows), field, None)))
         IN count_values(Tail(rows), field,
                         IF val /= <<>> THEN count_seq_inc(cnt, val) ELSE cnt)

\* a sort by descending count that is not stable: an item goes before the items
\* of equal count
insert_by_count_unstable(sorted, item) ==
    LET n == Cardinality({i \in DOMAIN sorted : sorted[i][2] > item[2]})
    IN SubSeq(sorted, 1, n) \o <<item>> \o SubSeq(sorted, n + 1, Len(sorted))

\* the place of an item in a list sorted by descending count: behind every item
\* whose count is at least its own
insert_by_count(sorted, item) ==
    LET n == Cardinality({i \in DOMAIN sorted : sorted[i][2] >= item[2]})
    IN SubSeq(sorted, 1, n) \o <<item>> \o SubSeq(sorted, n + 1, Len(sorted))

RECURSIVE most_common_from(_, _)
most_common_from(items, sorted) ==
    IF items = <<>> THEN sorted
    ELSE most_common_from(Tail(items), insert_by_count(sorted, Head(items)))

\* Counter.most_common()
most_common(cnt) == most_common_from(cnt, <<>>)

_csv_top_for_file(ix, filename, field) ==
    LET rows == get(ix.seen_by_filename, filename, <<>>)
    IN IF rows = <<>> THEN <<>>
       ELSE LET mc == most_common(count_values(rows, field, <<>>))
            IN [i \in DOMAIN mc |-> mc[i][1]]

(***************************************************************************)
(* populate_ai_from_sources.  A combo box is its list of item texts and    *)
(* its current index (0-based, -1 when there is none).                     *)
(***************************************************************************)
\* QComboBox.findText: the index of the first item with that text, or -1
findText(items, text) ==
    IF \E i \in DOMAIN items : items[i] = text
    THEN (CHOOSE i \in DOMAIN items :
              items[i] = text /\ \A j \in DOMAIN items : items[j] = text => i <= j) - 1
    ELSE -1

\* current_value_for(key) over the line edits of the form
current_value_for(f, key) ==
    IF key = "date"
    THEN LET y == strip(f["year"])
             m == strip(f["month"])
             d == strip(f["day"])
         IN IF y /= <<>> \/ m /= <<>> \/ d /= <<>>
            THEN y \o <<"-">> \o m \o <<"-">> \o d
            ELSE <<>>
    ELSE IF key \in {"provider", "invoice", "total", "taxid", "iban"}
         THEN strip(f[key])
         ELSE <<>>

\* an add() that does not look the value up in seen
add_unchecked(items, val) ==
    LET v == strip(val)
    IN IF v = <<>> THEN items ELSE Append(items, v)

\* the local function add(val): seen holds exactly the items added so far
add(items, val) ==
    LET v == strip(val)
    IN IF v = <<>> \/ v \in {items[i] : i \in DOMAIN items} THEN items ELSE Append(items, v)

\* for v in vals: add(v)
RECURSIVE add_each(_, _)
add_each(items, vals) ==
    IF vals = <<>> THEN items ELSE add_each(add(items, Head(vals)), Tail(vals))

\* a default selection that looks for the clear-field marker
default_index_clear(items) ==
    IF Len(items) > 0 /\ items[1] \notin {LEAVE_UNCHANGED, CLEAR_FIELD}
    THEN 0
    ELSE findText(items, CLEAR_FIELD)

\* the argument of combo.setCurrentIndex in populate_ai_from_sources
default_index(items) ==
    IF Len(items) > 0 /\ items[1] \notin {LEAVE_UNCHANGED, CLEAR_FIELD}
    THEN 0
    ELSE findText(items, LEAVE_UNCHANGED)

\* the combo box of one field key after populate_ai_from_sources(filename)
combo_from_sources(ix, cache, f, filename, key) ==
    LET ai_entry == get(cache, filename, EmptyDict)
        csv_top == _csv_top_for_file(ix, filename, key)
        ai_vals == get(ai_entry, key, <<>>)
        cur == current_value_for(f, key)
        a1 == add_each(<<>>, csv_top)
        a2 == add_each(a1, ai_vals)
        a3 == IF cur /= <<>> THEN add(a2, cur) ELSE a2
        items == a3 \o <<LEAVE_UNCHANGED, CLEAR_FIELD>>
    IN [items |-> items, current |-> default_index(items)]

populate_ai_from_sources(ix, cache, f, filename) ==
    [key \in FieldKeys |-> combo_from_sources(ix, cache, f, filename, key)]

(***************************************************************************)
(* Sample data: the lines a CSV file may hold.  A line written by          *)
(* _append_csv has ten cells; a line edited by hand may be short.          *)
(***************************************************************************)
FILE_A == <<"a", ".", "p", "d", "f">>
FILE_B == <<"b", ".", "p", "d", "f">>
FILE_C == <<"c", ".", "p", "d", "f">>

FileNames == {FILE_A, FILE_B}

YEAR == <<"2", "0", "2", "3">>
MONTH == <<"0", "2">>
DAY == <<"2", "3">>
INVOICE == <<"7">>
TOTAL == <<"9">>
TAX1 == <<"T", "1">>
TAX2 == <<"T", "2">>

AB_SA == <<"A", "b", " ", "S", "A">>
AB_SA_PUNCT == <<"a", "b", ",", " ", "s", "a", ".">>
AB_S_A == <<"A", "b", " ", "S", ".", "A", ".">>
CD == <<"C", "d">>
CD_PADDED == <<" ", "C", "d">>

\* a CSV line of n cells
CsvLine(fn, prov, tax, n) ==
    SubSeq(<<fn, YEAR, MONTH, DAY, prov, INVOICE, TOTAL, <<>>, tax, <<>>>>, 1, n)

CsvLines ==
    { CsvLine(FILE_A, AB_SA, TAX1, 10),
      CsvLine(FILE_A, AB_SA_PUNCT, <<>>, 10),
      CsvLine(FILE_A, AB_S_A, TAX2, 10),
      CsvLine(FILE_B, CD_PADDED, TAX1, 10),
      CsvLine(FILE_B, CD, <<>>, 10),
      CsvLine(FILE_B, <<>>, <<>>, 10),
      CsvLine(FILE_B, AB_SA, <<>>, 5),
      CsvLine(FILE_A, <<>>, <<>>, 1) }

\* the sequences over S of length at most n
RECURSIVE SeqsUpTo(_, _)
SeqsUpTo(S, n) ==
    IF n = 0 THEN { <<>> }
    ELSE LET shorter == SeqsUpTo(S, n - 1)
         IN shorter \cup { Append(q, x) : q \in shorter, x \in S }

\* PdfSorter.__init__ before the CSV and the AI cache are loaded
Construct ==
    /\ files = <<>>
    /\ idx = 0
    /\ page = 0
    /\ form = [k \in FormKeys |-> <<>>]
    /\ ai_cache = EmptyDict
    /\ ai_cache_csv = <<>>
    /\ sugg_fields = [k \in FieldKeys |->
                         [items |-> <<LEAVE_UNCHANGED, CLEAR_FIELD>>, current |-> 0]]

appVars == <<files, idx, page, form, ai_cache, csv_file, ai_cache_csv, sugg_fields>>

(***************************************************************************)
(* SpecIndex: the record index under its two mutations, _index_csv_row     *)
(* (ingest) and _load_csv_suggestions_and_indices (rebuild), applied to    *)
(* the lines of a CSV file drawn from the sample lines.  An ingest takes   *)
(* the next line of the file; a rebuild reads the whole file.              *)
(***************************************************************************)
InitIndex ==
    /\ Construct
    /\ csv_file \in SeqsUpTo(CsvLines, MaxRows)
    /\ csv_rows = <<>>
    /\ seen_by_filename = EmptyDict
    /\ freq_provider = EmptyDict
    /\ freq_taxid = EmptyDict
    /\ freq_iban = EmptyDict
    /\ group_index = EmptyDict
    /\ models = [provider |-> {}, taxid |-> {}, iban |-> {}]
    /\ ingested = <<>>
    /\ last = [op |-> "init", raised |-> FALSE, rows_before |-> 0]

\* one call of _index_csv_row, with the next line of the file
IndexCsvRow ==
    /\ Len(ingested) < Len(csv_file)
    /\ LET line == csv_file[Len(ingested) + 1]
           r == _index_csv_row(Index, DictReader(line))
       IN /\ SetIndex(r.ix)
          /\ ingested' = Append(ingested, line)
          /\ last' = [op |-> "_index_csv_row", raised |-> r.raised,
                      rows_before |-> Len(csv_rows)]
    /\ UNCHANGED appVars

\* one call of _load_csv_suggestions_and_indices
LoadCsv ==
    /\ LET r == _load_csv_suggestions_and_indices(Index, csv_file)
       IN /\ SetIndex(r.ix)
          /\ ingested' = SubSeq(csv_file, 1, r.calls)
          /\ last' = [op |-> "_load_csv_suggestions_and_indices", raised |-> r.raised,
                      rows_before |-> Len(csv_rows)]
    /\ UNCHANGED appVars

NextIndex == IndexCsvRow \/ LoadCsv

SpecIndex == InitIndex /\ [][NextIndex]_vars

(***************************************************************************)
(* SpecSugg: populate_ai_from_sources as a function of its three sources.  *)
(* The history of the CSV file, the AI cache entry of the current file and *)
(* the text of the form are drawn from the samples; the one action builds  *)
(* the six suggestion lists for the current file.                          *)
(***************************************************************************)
X == <<"X">>

HistoryLines ==
    { CsvLine(FILE_A, AB_SA, TAX1, 10),
      CsvLine(FILE_A, AB_S_A, TAX2, 10),
      CsvLine(FILE_A, CD_PADDED, <<>>, 10),
      CsvLine(FILE_A, <<>>, <<>>, 10),
      CsvLine(FILE_B, X, TAX1, 10) }

AiValues == { AB_SA, LEAVE_UNCHANGED, <<>> }

FormProviders == { <<>>, CD, CLEAR_FIELD }

\* the dictionary extract_entities returns for a document whose only entities
\* are supplier names
AiEntry(names) == IF names = <<>> THEN EmptyDict ELSE [k \in {"provider"} |-> names]

InitSugg ==
    /\ files = <<FILE_A>>
    /\ idx = 0
    /\ page = 0
    /\ ai_cache_csv = <<>>
    /\ csv_file \in SeqsUpTo(HistoryLines, MaxHistory)
    /\ IndexIs(_load_csv_suggestions_and_indices(EmptyIndex, csv_file).ix)
    /\ ingested = csv_file
    /\ \E names \in SeqsUpTo(AiValues, MaxAi) : ai_cache = [f \in {FILE_A} |-> AiEntry(names)]
    /\ \E p \in FormProviders, y \in {<<>>, YEAR} :
          form = [k \in FormKeys |->
                     IF k = "provider" THEN p ELSE IF k = "year" THEN y ELSE <<>>]
    /\ sugg_fields = [k \in FieldKeys |->
                         [items |-> <<LEAVE_UNCHANGED, CLEAR_FIELD>>, current |-> 0]]
    /\ last = [op |-> "init", raised |-> FALSE, rows_before |-> 0]

\* populate_ai_from_sources(self.files[self.idx].name)
PopulateFromSources ==
    /\ sugg_fields' = populate_ai_from_sources(Index, ai_cache, form, files[idx + 1])
    /\ last' = [op |-> "populate_ai_from_sources", raised |-> FALSE, rows_before |-> 0]
    /\ UNCHANGED <<files, idx, page, form, ai_cache, csv_file, ai_cache_csv, ingested>>
    /\ UNCHANGED indexVars

NextSugg == PopulateFromSources

SpecSugg == InitSugg /\ [][NextSugg]_vars

(***************************************************************************)
(* The window: rendering, navigation, AI runs and saving, as the class     *)
(* binds them (the last definition of each method).  The part of the state *)
(* that rendering changes is passed as a record nav of files, idx, page    *)
(* and sugg_fields.                                                        *)
(***************************************************************************)
Max(a, b) == IF a >= b THEN a ELSE b

Min(a, b) == IF a <= b THEN a ELSE b

\* the files try_open_doc cannot open (or load_page cannot render)
Unreadable == {FILE_C}

\* doc.page_count of a readable file
page_count(path) == IF path = FILE_A THEN 2 ELSE 1

Nav == [files |-> files, idx |-> idx, page |-> page, sugg_fields |-> sugg_fields]

SetNav(nav) ==
    /\ files' = nav.files
    /\ idx' = nav.idx
    /\ page' = nav.page
    /\ sugg_fields' = nav.sugg_fields

\* list.pop(i), i 0-based
pop(q, i) == SubSeq(q, 1, i) \o SubSeq(q, i + 2, Len(q))

\* populate_ai_from_cache: the AI candidates as they are, then the current
\* value, then the two markers; the first item selected
populate_ai_from_cache(cache, f, filename) ==
    [key \in FieldKeys |->
        LET entry == get(cache, filename, EmptyDict)
            candidates == get(entry, key, <<>>)
            cur == current_value_for(f, key)
        IN [items |-> candidates \o (IF cur /= <<>> THEN <<cur>> ELSE <<>>)
                          \o <<LEAVE_UNCHANGED, CLEAR_FIELD>>,
            current |-> 0]]

RECURSIVE render_current(_, _, _, _)
RECURSIVE quarantine_and_next(_, _, _, _)

render_current(nav, ix, cache, f) ==
    IF nav.files = <<>> THEN nav
    ELSE LET path == nav.files[nav.idx + 1]
         IN IF path \in Unreadable
            THEN quarantine_and_next(nav, ix, cache, f)
            ELSE [nav EXCEPT
                    !.page = Max(0, Min(nav.page, page_count(path) - 1)),
                    !.sugg_fields = populate_ai_from_sources(ix, cache, f, path)]

quarantine_and_next(nav, ix, cache, f) ==
    IF nav.files = <<>> THEN nav
    ELSE LET rest == pop(nav.files, nav.idx)
         IN IF rest /= <<>>
            THEN render_current(
                     [nav EXCEPT !.files = rest,
                                 !.idx = IF nav.idx >= Len(rest) THEN 0 ELSE nav.idx,
                                 !.page = 0],
                     ix, cache, f)
            ELSE [nav EXCEPT !.files = rest]

\* Path.stem and Path.suffix of a file name: split at the last dot
last_dot(name) ==
    IF \E i \in DOMAIN name : name[i] = "."
    THEN CHOOSE i \in DOMAIN name :
             name[i] = "." /\ \A j \in DOMAIN name : name[j] = "." => j <= i
    ELSE Len(name) + 1

DigitText == <<"1", "2", "3", "4", "5", "6", "7", "8", "9">>

\* the target name of move_to_dir: the name itself when free = 0 (no file of
\* that name in the folder), else stem(i)ext for the first free i
move_target(name, free) ==
    IF free = 0 THEN name
    ELSE SubSeq(name, 1, last_dot(name) - 1) \o <<"(", DigitText[free], ")">>
             \o SubSeq(name, last_dot(name), Len(name))

\* the line _append_csv writes for a file name
csv_line(f, name) ==
    <<name, strip(f["year"]), strip(f["month"]), strip(f["day"]), strip(f["provider"]),
      strip(f["invoice"]), strip(f["total"]), strip(f["card"]), strip(f["taxid"]),
      strip(f["iban"])>>

\* _load_csv_suggestions: the autocomplete models read from the file
_load_csv_suggestions(lines) ==
    LET vals(col) == {strip(or_empty(DictReader(lines[i])[col])) : i \in DOMAIN lines} \ {<<>>}
    IN [provider |-> vals("provider"), taxid |-> vals("taxid"), iban |-> vals("iban")]

\* ' | '.join(vals)
RECURSIVE join(_)
join(vals) ==
    IF vals = <<>> THEN <<>>
    ELSE IF Len(vals) = 1 THEN vals[1]
         ELSE vals[1] \o <<" ", "|", " ">> \o join(Tail(vals))

\* the line save_ai_cache_entry writes
ai_cache_line(filename, sugg) ==
    <<filename>> \o [i \in DOMAIN FIELD_KEYS |-> join(get(sugg, FIELD_KEYS[i], <<>>))]

(***************************************************************************)
(* Spec: the window after construction, under its handlers.                *)
(***************************************************************************)
Folders == { <<FILE_A, FILE_B>>, <<FILE_B, FILE_C>>, <<FILE_C>>, <<>>, <<FILE_A, FILE_B, FILE_C>> }

InitialCsv == { <<>>, <<CsvLine(FILE_A, AB_SA, TAX1, 10)>> }

\* what extract_entities may return for a processed document
AiResults == { [k \in {"provider"} |-> <<AB_SA, X, X>>] }

TypedText == [provider : {<<>>, CD}, year : {<<>>}]

Done(op, raised) == last' = [op |-> op, raised |-> raised, rows_before |-> Len(csv_rows)]

Init ==
    /\ Construct
    /\ csv_file \in InitialCsv
    /\ IndexIs(_load_csv_suggestions_and_indices(EmptyIndex, csv_file).ix)
    /\ ingested = csv_file
    /\ last = [op |-> "init", raised |-> FALSE, rows_before |-> 0]

\* load_dir(folder): the sorted *.pdf of the folder
LoadDir ==
    \E folder \in Folders :
        /\ IF folder /= <<>>
           THEN SetNav(render_current(
                    [Nav EXCEPT !.files = folder, !.idx = 0, !.page = 0],
                    Index, ai_cache, form))
           ELSE SetNav([Nav EXCEPT !.files = folder])
        /\ Done("load_dir", FALSE)
        /\ UNCHANGED <<form, ai_cache, csv_file, ai_cache_csv, ingested>>
        /\ UNCHANGED indexVars

NextFile ==
    /\ files /= <<>>
    /\ SetNav(render_current(
           [Nav EXCEPT !.idx = (idx + 1) % Len(files), !.page = 0], Index, ai_cache, form))
    /\ Done("next_file", FALSE)
    /\ UNCHANGED <<form, ai_cache, csv_file, ai_cache_csv, ingested>>
    /\ UNCHANGED indexVars

PrevFile ==
    /\ files /= <<>>
    /\ SetNav(render_current(
           [Nav EXCEPT !.idx = (idx - 1) % Len(files), !.page = 0], Index, ai_cache, form))
    /\ Done("prev_file", FALSE)
    /\ UNCHANGED <<form, ai_cache, csv_file, ai_cache_csv, ingested>>
    /\ UNCHANGED indexVars

ChangePage ==
    \E delta \in {-1, 1} :
        /\ files /= <<>>
        /\ SetNav(render_current(
               [Nav EXCEPT !.page = Max(0, page + delta)], Index, ai_cache, form))
        /\ Done("change_page", FALSE)
        /\ UNCHANGED <<form, ai_cache, csv_file, ai_cache_csv, ingested>>
        /\ UNCHANGED indexVars

\* the operator types into a line edit of the form
TypeField ==
    \E t \in TypedText :
        /\ form' = [form EXCEPT !["provider"] = t.provider, !["year"] = t.year]
        /\ form' /= form
        /\ Done("type", FALSE)
        /\ UNCHANGED <<files, idx, page, ai_cache, csv_file, ai_cache_csv, sugg_fields,
                       ingested>>
        /\ UNCHANGED indexVars

\* the button Quarantine & Next
QuarantineAndNext ==
    /\ files /= <<>>
    /\ SetNav(quarantine_and_next(Nav, Index, ai_cache, form))
    /\ Done("quarantine_and_next", FALSE)
    /\ UNCHANGED <<form, ai_cache, csv_file, ai_cache_csv, ingested>>
    /\ UNCHANGED indexVars

\* run_ai: the request raises, or returns a document whose entities are cached,
\* saved and shown (the cache file is taken to be writable)
RunAi ==
    /\ files /= <<>>
    /\ Len(ai_cache_csv) < MaxAiLines
    /\ \/ /\ Done("run_ai", TRUE)
          /\ UNCHANGED <<ai_cache, ai_cache_csv, sugg_fields>>
       \/ \E sugg \in AiResults :
             LET name == files[idx + 1]
                 cache == [x \in DOMAIN ai_cache \cup {name} |->
                              IF x = name THEN sugg ELSE ai_cache[x]]
             IN /\ ai_cache' = cache
                /\ ai_cache_csv' = Append(ai_cache_csv, ai_cache_line(name, sugg))
                /\ sugg_fields' = populate_ai_from_cache(cache, form, name)
                /\ Done("run_ai", FALSE)
    /\ UNCHANGED <<files, idx, page, form, csv_file, ingested>>
    /\ UNCHANGED indexVars

\* what one request of a batch does: it raises, or it returns entities
AiOutcomes ==
    { [raised |-> TRUE, sugg |-> EmptyDict] }
        \cup { [raised |-> FALSE, sugg |-> r] : r \in AiResults }

\* the loop of batch_ai_cache over self.files: the cache after it
RECURSIVE batch_cache(_, _, _, _)
batch_cache(cache, names, outcome, i) ==
    IF i > Len(names) THEN cache
    ELSE batch_cache(
             IF outcome[i].raised THEN cache
             ELSE [x \in DOMAIN cache \cup {names[i]} |->
                      IF x = names[i] THEN outcome[i].sugg ELSE cache[x]],
             names, outcome, i + 1)

\* the lines the loop of batch_ai_cache appends to the cache file
RECURSIVE batch_lines(_, _, _)
batch_lines(names, outcome, i) ==
    IF i > Len(names) THEN <<>>
    ELSE (IF outcome[i].raised THEN <<>>
          ELSE <<ai_cache_line(names[i], outcome[i].sugg)>>)
             \o batch_lines(names, outcome, i + 1)

\* batch_ai_cache (the cache file is taken to be writable)
BatchAiCache ==
    /\ files /= <<>>
    /\ Len(ai_cache_csv) + Len(files) <= MaxAiLines
    /\ \E outcome \in [1..Len(files) -> AiOutcomes] :
          LET cache == batch_cache(ai_cache, files, outcome, 1)
          IN /\ ai_cache' = cache
             /\ ai_cache_csv' = ai_cache_csv \o batch_lines(files, outcome, 1)
             /\ sugg_fields' = populate_ai_from_cache(cache, form, files[idx + 1])
    /\ Done("batch_ai_cache", FALSE)
    /\ UNCHANGED <<files, idx, page, form, csv_file, ingested>>
    /\ UNCHANGED indexVars

\* 0: no file of the name in the destination folder; i > 0: there is one, and
\* stem(i)ext is the first free name
RenameIndexes == {0, 1}

\* _append_csv (the bound definition): the line is written unless the write
\* raises, and the autocomplete models are read back from the file
_append_csv(lines, f, target, written) ==
    LET after == IF written THEN Append(lines, csv_line(f, target)) ELSE lines
    IN [csv_file |-> after, models |-> _load_csv_suggestions(after)]

\* _confirm_target of the first move_to_dir: the target the operator settles
\* on with the button clicked in the "Target Exists" dialog, None on Cancel;
\* no dialog when the name is free
_confirm_target(name, free, clicked) ==
    IF free = 0 THEN [asked |-> FALSE, target |-> name]
    ELSE [asked |-> TRUE,
          target |-> IF clicked = "Cancel" THEN None
                     ELSE IF clicked = "Auto-Rename" THEN move_target(name, free)
                     ELSE name]

\* move_to_dir that leaves idx where it was after the pop and does not render
move_to_dir_keeps_idx(nav, ix, cache, f, lines, free, moved, written) ==
    LET target == move_target(nav.files[nav.idx + 1], free)
        saved == _append_csv(lines, f, target, written)
    IN IF ~moved
       THEN [nav |-> nav, csv_file |-> lines, models |-> ix.models, raised |-> TRUE,
             saved |-> FALSE, line |-> <<>>, asked |-> FALSE]
       ELSE [nav |-> [nav EXCEPT !.files = pop(nav.files, nav.idx), !.page = 0],
             csv_file |-> saved.csv_file, models |-> saved.models, raised |-> FALSE,
             saved |-> written, line |-> csv_line(f, target), asked |-> FALSE]

\* move_to_dir that drops the file from the list although the move raised
move_to_dir_drops_on_failure(nav, ix, cache, f, lines, free, moved, written) ==
    LET target == move_target(nav.files[nav.idx + 1], free)
        saved == _append_csv(lines, f, target, written)
        rest == pop(nav.files, nav.idx)
    IN [nav |-> IF rest /= <<>>
                THEN render_current(
                         [nav EXCEPT !.files = rest,
                                     !.idx = IF nav.idx >= Len(rest) THEN 0 ELSE nav.idx,
                                     !.page = 0],
                         ix, cache, f)
                ELSE [nav EXCEPT !.files = rest],
        csv_file |-> IF moved THEN saved.csv_file ELSE lines,
        models |-> IF moved THEN saved.models ELSE ix.models,
        raised |-> ~moved, saved |-> moved /\ written,
        line |-> IF moved THEN csv_line(f, target) ELSE <<>>, asked |-> FALSE]

\* move_to_dir (the bound definition): mkdir or shutil.move raises (moved is
\* FALSE) and the handler returns, or the file is moved to the name itself or
\* to the first free stem(i)ext, _append_csv runs and the file leaves the list.
\* No dialog is opened: asked is FALSE.
move_to_dir(nav, ix, cache, f, lines, free, moved, written) ==
    LET target == move_target(nav.files[nav.idx + 1], free)
        saved == _append_csv(lines, f, target, written)
        rest == pop(nav.files, nav.idx)
    IN IF ~moved
       THEN [nav |-> nav, csv_file |-> lines, models |-> ix.models, raised |-> TRUE,
             saved |-> FALSE, line |-> <<>>, asked |-> FALSE]
       ELSE [nav |-> IF rest /= <<>>
                     THEN render_current(
                              [nav EXCEPT !.files = rest,
                                          !.idx = IF nav.idx >= Len(rest) THEN 0 ELSE nav.idx,
                                          !.page = 0],
                              ix, cache, f)
                     ELSE [nav EXCEPT !.files = rest],
             csv_file |-> saved.csv_file, models |-> saved.models, raised |-> FALSE,
             saved |-> written, line |-> csv_line(f, target), asked |-> FALSE]

\* the buttons Move to ALL, Move to D5 and Move to FL
MoveToDir ==
    /\ files /= <<>>
    /\ Len(csv_file) < MaxSaves
    /\ \E free \in RenameIndexes, moved \in BOOLEAN, written \in BOOLEAN :
          LET r == move_to_dir(Nav, Index, ai_cache, form, csv_file, free, moved, written)
          IN /\ SetNav(r.nav)
             /\ csv_file' = r.csv_file
             /\ models' = r.models
             /\ last' = [op |-> "move_to_dir", raised |-> r.raised,
                         rows_before |-> Len(csv_rows), saved |-> r.saved, line |-> r.line,
                         exists |-> free > 0, asked |-> r.asked]
    /\ UNCHANGED <<form, ai_cache, ai_cache_csv, ingested>>
    /\ UNCHANGED <<csv_rows, seen_by_filename, freq_provider, freq_taxid, freq_iban,
                   group_index>>

Next ==
    \/ LoadDir
    \/ NextFile
    \/ PrevFile
    \/ ChangePage
    \/ TypeField
    \/ QuarantineAndNext
    \/ RunAi
    \/ BatchAiCache
    \/ MoveToDir

Spec == Init /\ [][Next]_vars

\* the handlers that open, render, navigate, move and quarantine
NextNav ==
    \/ LoadDir
    \/ NextFile
    \/ PrevFile
    \/ ChangePage
    \/ QuarantineAndNext
    \/ MoveToDir

SpecNav == Init /\ [][NextNav]_vars

(***************************************************************************)
(* Properties of the record index.                                         *)
(***************************************************************************)
Elems(q) == {q[i] : i \in DOMAIN q}

\* the sum of the lengths of the lists of a dictionary
RECURSIVE SumLen(_, _)
SumLen(d, keys) ==
    IF keys = {} THEN 0
    ELSE LET k == CHOOSE x \in keys : TRUE
         IN Len(d[k]) + SumLen(d, keys \ {k})

TotalLen(d) == SumLen(d, DOMAIN d)

\* a CSV line with all ten columns: a HistoryRecord
Complete(line) == Len(line) = Len(CSV_HEADER)

SameDerived(ix1, ix2) ==
    /\ ix1.seen_by_filename = ix2.seen_by_filename
    /\ ix1.freq_provider = ix2.freq_provider
    /\ ix1.freq_taxid = ix2.freq_taxid
    /\ ix1.freq_iban = ix2.freq_iban
    /\ ix1.group_index = ix2.group_index

\* C6: for a sequence of history records (lines with all ten columns), the index
\* reached by ingesting them one by one, or by any mix of ingests and rebuilds,
\* has the per-filename lists, counters and groups of a rebuild from the
\* sequence on an empty index; and a rebuild on the current index gives what a
\* rebuild on an empty index gives.
C6_RebuildEqualsIngest ==
    (\A i \in DOMAIN ingested : Complete(ingested[i])) =>
        /\ SameDerived(Index, _load_csv_suggestions_and_indices(EmptyIndex, ingested).ix)
        /\ SameDerived(_load_csv_suggestions_and_indices(Index, ingested).ix,
                       _load_csv_suggestions_and_indices(EmptyIndex, ingested).ix)

\* C6 witness: a rebuild ran on a non-empty index, from at least two complete
\* records that fall into at least two groups
C6_Witness ==
    /\ last.op = "_load_csv_suggestions_and_indices"
    /\ last.rows_before > 0
    /\ Len(ingested) >= 2
    /\ \A i \in DOMAIN ingested : Complete(ingested[i])
    /\ Cardinality(DOMAIN group_index) >= 2

\* the number of rows of csv_rows whose stripped value of a column is v
CountRows(col, v) ==
    Cardinality({i \in DOMAIN csv_rows :
                    csv_rows[i][col] /= None /\ strip(csv_rows[i][col]) = v})

\* C7: ingestion is atomic: every row of the row list is also in its
\* per-filename list and in a group, and the counters count it; so the rows of
\* the per-filename lists and of the groups are as many as the rows of the row
\* list, also after an ingest that failed or a rebuild a failing row stopped.
C7_IngestAtomic ==
    /\ TotalLen(seen_by_filename) = Len(csv_rows)
    /\ TotalLen(group_index) = Len(csv_rows)
    /\ \A i \in DOMAIN csv_rows :
          /\ \E k \in DOMAIN group_index : csv_rows[i] \in Elems(group_index[k])
          /\ \E f \in DOMAIN seen_by_filename : csv_rows[i] \in Elems(seen_by_filename[f])
          /\ \A col \in {"provider", "taxid", "iban"} :
                LET v == csv_rows[i][col]
                    c == CASE col = "provider" -> freq_provider
                           [] col = "taxid" -> freq_taxid
                           [] OTHER -> freq_iban
                IN (v /= None /\ strip(v) /= <<>>) =>
                       (strip(v) \in DOMAIN c /\ c[strip(v)] = CountRows(col, strip(v)))

\* the values of a field in the records of a file, as _csv_top_for_file reads them
FieldValue(row, field) == strip(or_empty(get(row, field, None)))

Occurrences(rows, field, v) == {i \in DOMAIN rows : FieldValue(rows[i], field) = v}

FirstOccurrence(rows, field, v) ==
    CHOOSE i \in Occurrences(rows, field, v) :
        \A j \in Occurrences(rows, field, v) : i <= j

\* C8: _csv_top_for_file returns each distinct non-empty value of the field among
\* the file's records exactly once, by descending number of occurrences in that
\* file, values of equal count in the order of their first occurrence.
C8_TopForFile ==
    \A fn \in FileNames : \A field \in FieldKeys :
        LET rows == get(seen_by_filename, fn, <<>>)
            top == _csv_top_for_file(Index, fn, field)
            n(v) == Cardinality(Occurrences(rows, field, v))
        IN /\ Elems(top) = {FieldValue(rows[i], field) : i \in DOMAIN rows} \ {<<>>}
           /\ \A j, k \in DOMAIN top : j < k =>
                 /\ top[j] /= top[k]
                 /\ \/ n(top[j]) > n(top[k])
                    \/ /\ n(top[j]) = n(top[k])
                       /\ FirstOccurrence(rows, field, top[j])
                              < FirstOccurrence(rows, field, top[k])

\* C8 witness: a file with three records whose second value is the more frequent
\* one, so that the order by count differs from the order of first occurrence;
\* and a file with two values of equal count
C8_Witness ==
    /\ \E fn \in FileNames :
          LET rows == get(seen_by_filename, fn, <<>>)
              top == _csv_top_for_file(Index, fn, "provider")
          IN /\ Len(top) = 2
             /\ FirstOccurrence(rows, "provider", top[1])
                    > FirstOccurrence(rows, "provider", top[2])
    /\ last.op = "_index_csv_row"

\* two provider names that differ only in letter case, in punctuation or in
\* legal-entity suffixes: without the punctuation and in lower case, they are the
\* same words once the suffix words are left out
RECURSIVE Words(_)
Words(s) ==
    LET t == lstrip(s)
    IN IF t = <<>> THEN <<>>
       ELSE <<runNot(t, Whitespace)>> \o Words(drop(t, Len(runNot(t, Whitespace))))

IsSuffixWord(w) == w \in LEGAL_SUFFIXES

IsLetterOrSpace(c) == c \in AsciiLower \cup Digits \cup Whitespace

Canonical(p) ==
    LET unpunctuated == SelectSeq(lower(p), IsLetterOrSpace)
        ws == Words(unpunctuated)
        NotSuffix(w) == ~IsSuffixWord(w)
    IN SelectSeq(ws, NotSuffix)

DifferOnlyInCasePunctuationSuffix(p, q) == Canonical(p) = Canonical(q)

\* C10: after any sequence of ingests and rebuilds every ingested record is in
\* exactly one group, the one of its grouping key, and in exactly one
\* per-filename list, the one of its file name; the group sizes and the
\* per-filename list sizes each sum to the number of ingested records; and two
\* records with the same invoice, total and date whose providers differ only in
\* case, punctuation or legal-entity suffix are in the same group.
C10_GroupsPartition ==
    /\ TotalLen(group_index) = Len(ingested)
    /\ TotalLen(seen_by_filename) = Len(ingested)
    /\ \A i \in DOMAIN ingested :
          LET row == DictReader(ingested[i])
          IN /\ {k \in DOMAIN group_index : row \in Elems(group_index[k])}
                    = {group_key(row)}
             /\ {f \in DOMAIN seen_by_filename : row \in Elems(seen_by_filename[f])}
                    = {row["filename"]}
    /\ \A i, j \in DOMAIN ingested :
          LET r1 == DictReader(ingested[i])
              r2 == DictReader(ingested[j])
          IN (/\ Complete(ingested[i]) /\ Complete(ingested[j])
              /\ r1["invoice"] = r2["invoice"] /\ r1["total"] = r2["total"]
              /\ r1["year"] = r2["year"] /\ r1["month"] = r2["month"]
              /\ r1["day"] = r2["day"]
              /\ DifferOnlyInCasePunctuationSuffix(r1["provider"], r2["provider"]))
             => \E k \in DOMAIN group_index :
                    {r1, r2} \subseteq Elems(group_index[k])

(***************************************************************************)
(* Properties of the suggestion lists.                                     *)
(***************************************************************************)
Populated == last.op = "populate_ai_from_sources"

CurrentFile == files[idx + 1]

\* the items of a combo box in front of its last two
Candidates(items) == SubSeq(items, 1, Len(items) - 2)

NoDuplicates(q) == \A i, j \in DOMAIN q : i /= j => q[i] /= q[j]

Count(q, x) == Cardinality({i \in DOMAIN q : q[i] = x})

\* C1: the list built by populate_ai_from_sources has no duplicate among its
\* candidates and holds the leave-unchanged and the clear-field marker exactly
\* once each, as its last two entries, in that order, whatever the sources hold
\* (values repeated across sources, values equal to a marker text).
C1_MarkersOnceAndLast ==
    Populated =>
        \A key \in FieldKeys :
            LET items == sugg_fields[key].items
            IN /\ Len(items) >= 2
               /\ NoDuplicates(Candidates(items))
               /\ items[Len(items) - 1] = LEAVE_UNCHANGED
               /\ items[Len(items)] = CLEAR_FIELD
               /\ Count(items, LEAVE_UNCHANGED) = 1
               /\ Count(items, CLEAR_FIELD) = 1

\* the three sources of a field, in the order of their provenance
Sources(key) ==
    LET top == _csv_top_for_file(Index, CurrentFile, key)
        ai == get(get(ai_cache, CurrentFile, EmptyDict), key, <<>>)
        all == top \o ai \o <<current_value_for(form, key)>>
    IN [i \in DOMAIN all |-> strip(all[i])]

\* the non-blank entries of a sequence, each at its first occurrence only
RECURSIVE FirstOccurrencesFrom(_, _)
FirstOccurrencesFrom(all, i) ==
    IF i > Len(all) THEN <<>>
    ELSE (IF all[i] /= <<>> /\ \A j \in 1..(i - 1) : all[j] /= all[i]
          THEN <<all[i]>> ELSE <<>>) \o FirstOccurrencesFrom(all, i + 1)

\* C2: the candidate part of the list is the ranked history values, then the AI
\* candidates in extraction order, then the current value, blanks skipped and
\* every value kept at its first occurrence only.
C2_CandidateOrder ==
    Populated =>
        \A key \in FieldKeys :
            Candidates(sugg_fields[key].items) = FirstOccurrencesFrom(Sources(key), 1)

\* C2 witness: a provider list built from a history value that the AI repeats
\* and a current value that is new
C2_Witness ==
    /\ Populated
    /\ LET top == _csv_top_for_file(Index, CurrentFile, "provider")
           ai == get(get(ai_cache, CurrentFile, EmptyDict), "provider", <<>>)
       IN /\ top /= <<>>
          /\ \E i \in DOMAIN ai : ai[i] \in Elems(top)
          /\ current_value_for(form, "provider") /= <<>>
          /\ current_value_for(form, "provider") \notin Elems(top) \cup Elems(ai)
          /\ Len(Candidates(sugg_fields["provider"].items)) = Len(top) + 1

\* C3: the default index is 0 when the first entry is not a control marker, and
\* otherwise the index of the leave-unchanged marker; with no history, no AI
\* candidate and no current value the list is <<leave-unchanged, clear-field>>
\* and the default points at leave-unchanged.
C3_DefaultIndex ==
    Populated =>
        \A key \in FieldKeys :
            LET items == sugg_fields[key].items
                cur == sugg_fields[key].current
            IN /\ items[1] \notin {LEAVE_UNCHANGED, CLEAR_FIELD} => cur = 0
               /\ items[1] \in {LEAVE_UNCHANGED, CLEAR_FIELD} =>
                     /\ cur \in 0..(Len(items) - 1)
                     /\ items[cur + 1] = LEAVE_UNCHANGED
                     /\ \A j \in 1..cur : items[j] /= LEAVE_UNCHANGED
               /\ FirstOccurrencesFrom(Sources(key), 1) = <<>> =>
                     /\ items = <<LEAVE_UNCHANGED, CLEAR_FIELD>>
                     /\ cur = 0

\* C3 witness: one field whose list starts with a candidate, one field with
\* nothing but the two markers
C3_Witness ==
    /\ Populated
    /\ sugg_fields["provider"].items[1] \notin {LEAVE_UNCHANGED, CLEAR_FIELD}
    /\ sugg_fields["provider"].current = 0
    /\ sugg_fields["iban"].items = <<LEAVE_UNCHANGED, CLEAR_FIELD>>
    /\ sugg_fields["iban"].current = 0

\* some history record of the file carries a value for the field key; the date
\* of a record is its year, month and day
HasHistoryValue(filename, key) ==
    \E row \in Elems(get(seen_by_filename, filename, <<>>)) :
        IF key = "date"
        THEN \E col \in {"year", "month", "day"} : strip(or_empty(row[col])) /= <<>>
        ELSE strip(or_empty(row[key])) /= <<>>

\* C9: for each of the six field keys, if some history record of the file
\* carries a non-empty value for the field, the history values returned for the
\* file and the field are non-empty and the list of the field starts with one.
C9_HistoryFirst ==
    Populated =>
        \A key \in FieldKeys :
            HasHistoryValue(CurrentFile, key) =>
                /\ _csv_top_for_file(Index, CurrentFile, key) /= <<>>
                /\ sugg_fields[key].items[1]
                       \in Elems(_csv_top_for_file(Index, CurrentFile, key))

(***************************************************************************)
(* Properties of the window.                                               *)
(***************************************************************************)
\* the handlers that fill the suggestion lists for the current file
PopulatingOps ==
    {"load_dir", "next_file", "prev_file", "change_page", "quarantine_and_next",
     "move_to_dir", "run_ai", "batch_ai_cache"}

\* C4: after render_current, run_ai and batch_ai_cache the list shown for each
\* field is the history candidates, then the AI candidates, then the current
\* value, then leave-unchanged, then clear-field, with no duplicate candidate;
\* an AI run never yields a list without the history candidates of the file or
\* with a repeated value.
C4_ShownListOrder ==
    (files /= <<>> /\ last.op \in PopulatingOps /\ ~last.raised) =>
        \A key \in FieldKeys :
            sugg_fields[key].items
                = FirstOccurrencesFrom(Sources(key), 1) \o <<LEAVE_UNCHANGED, CLEAR_FIELD>>

\* C5: after every successful save the record index holds the saved record: it
\* is the last entry of the per-filename list of the target file name, it is in
\* the group of its grouping key, and the counters count it.
C5_SavedRecordIndexed ==
    (last.op = "move_to_dir" /\ ~last.raised /\ last.saved) =>
        LET row == DictReader(last.line)
            fn == row["filename"]
        IN /\ fn \in DOMAIN seen_by_filename
           /\ seen_by_filename[fn][Len(seen_by_filename[fn])] = row
           /\ group_key(row) \in DOMAIN group_index
           /\ row \in Elems(group_index[group_key(row)])
           /\ \A col \in {"provider", "taxid", "iban"} :
                 LET c == CASE col = "provider" -> freq_provider
                            [] col = "taxid" -> freq_taxid
                            [] OTHER -> freq_iban
                 IN row[col] /= <<>> =>
                        (row[col] \in DOMAIN c /\ c[row[col]] = CountRows(col, row[col]))

(***************************************************************************)
(* Dates: parse_date_any and the handler that applies a parsed date.       *)
(***************************************************************************)
DigitChars == <<"0", "1", "2", "3", "4", "5", "6", "7", "8", "9">>

\* int(s) of a text of decimal digits
RECURSIVE int(_)
int(s) ==
    IF s = <<>> THEN 0
    ELSE int(SubSeq(s, 1, Len(s) - 1)) * 10
             + ((CHOOSE i \in DOMAIN DigitChars : DigitChars[i] = s[Len(s)]) - 1)

\* str(n) of a natural number
RECURSIVE str(_)
str(n) == IF n < 10 THEN <<DigitChars[n + 1]>> ELSE str(n \div 10) \o <<DigitChars[(n % 10) + 1]>>

\* f"{n:0{width}d}": zero padded on the left, never truncated
zero_padded(n, width) ==
    LET t == str(n)
        pad[k \in 0..width] == IF k = 0 THEN <<>> ELSE <<"0">> \o pad[k - 1]
    IN IF Len(t) >= width THEN t ELSE pad[width - Len(t)] \o t

\* the month table of v1: English names and abbreviations
MONTHS_v1 ==
    (<<"j", "a", "n">> :> 1)
    @@ (<<"j", "a", "n", "u", "a", "r", "y">> :> 1)
    @@ (<<"f", "e", "b">> :> 2)
    @@ (<<"f", "e", "b", "r", "u", "a", "r", "y">> :> 2)
    @@ (<<"m", "a", "r">> :> 3)
    @@ (<<"m", "a", "r", "c", "h">> :> 3)
    @@ (<<"a", "p", "r">> :> 4)
    @@ (<<"a", "p", "r", "i", "l">> :> 4)
    @@ (<<"m", "a", "y">> :> 5)
    @@ (<<"j", "u", "n">> :> 6)
    @@ (<<"j", "u", "n", "e">> :> 6)
    @@ (<<"j", "u", "l">> :> 7)
    @@ (<<"j", "u", "l", "y">> :> 7)
    @@ (<<"a", "u", "g">> :> 8)
    @@ (<<"a", "u", "g", "u", "s", "t">> :> 8)
    @@ (<<"s", "e", "p">> :> 9)
    @@ (<<"s", "e", "p", "t">> :> 9)
    @@ (<<"s", "e", "p", "t", "e", "m", "b", "e", "r">> :> 9)
    @@ (<<"o", "c", "t">> :> 10)
    @@ (<<"o", "c", "t", "o", "b", "e", "r">> :> 10)
    @@ (<<"n", "o", "v">> :> 11)
    @@ (<<"n", "o", "v", "e", "m", "b", "e", "r">> :> 11)
    @@ (<<"d", "e", "c">> :> 12)
    @@ (<<"d", "e", "c", "e", "m", "b", "e", "r">> :> 12)

\* the month table of v2: English and Spanish names and abbreviations
MONTHS ==
    MONTHS_v1
    @@ (<<"e", "n", "e">> :> 1)
    @@ (<<"e", "n", "e", "r", "o">> :> 1)
    @@ (<<"f", "e", "b", "r", "e", "r", "o">> :> 2)
    @@ (<<"m", "a", "r", "z", "o">> :> 3)
    @@ (<<"a", "b", "r">> :> 4)
    @@ (<<"a", "b", "r", "i", "l">> :> 4)
    @@ (<<"m", "a", "y", "o">> :> 5)
    @@ (<<"j", "u", "n", "i", "o">> :> 6)
    @@ (<<"j", "u", "l", "i", "o">> :> 7)
    @@ (<<"a", "g", "o">> :> 8)
    @@ (<<"a", "g", "o", "s", "t", "o">> :> 8)
    @@ (<<"s", "e", "t">> :> 9)
    @@ (<<"s", "e", "p", "t", "i", "e", "m", "b", "r", "e">> :> 9)
    @@ (<<"s", "e", "t", "i", "e", "m", "b", "r", "e">> :> 9)
    @@ (<<"o", "c", "t", "u", "b", "r", "e">> :> 10)
    @@ (<<"n", "o", "v", "i", "e", "m", "b", "r", "e">> :> 11)
    @@ (<<"d", "i", "c">> :> 12)
    @@ (<<"d", "i", "c", "i", "e", "m", "b", "r", "e">> :> 12)

\* re.sub(r'[,\t]+', ' ', s)
RECURSIVE sub_comma_tab(_)
sub_comma_tab(s) ==
    IF s = <<>> THEN <<>>
    ELSE IF Head(s) \in {",", "\t"}
         THEN <<" ">> \o sub_comma_tab(drop(s, Len(run(s, {",", "\t"}))))
         ELSE <<Head(s)>> \o sub_comma_tab(Tail(s))

\* s.replace(',', ' ')
replace_comma(s) == [i \in DOMAIN s |-> IF s[i] = "," THEN " " ELSE s[i]]

\* the maximal runs of non-whitespace characters of s: what an anchored
\* pattern sees between its \s* ends and its \s+ separators
RECURSIVE split(_)
split(s) ==
    IF s = <<>> THEN <<>>
    ELSE IF Head(s) \in Whitespace THEN split(drop(s, Len(run(s, Whitespace))))
         ELSE <<runNot(s, Whitespace)>> \o split(drop(s, Len(runNot(s, Whitespace))))

\* \d{lo,hi} matching the whole of t
digits(t, lo, hi) == Len(t) \in lo..hi /\ \A i \in DOMAIN t : t[i] \in Digits

\* [a-z\.]+ (letters = a-z) or [A-Za-z\.]+ matching the whole of t
word(t, letters) == t /= <<>> /\ \A i \in DOMAIN t : t[i] \in letters \cup {"."}

\* str.strip('.')
RECURSIVE strip_dots(_)
strip_dots(t) ==
    IF t /= <<>> /\ Head(t) = "." THEN strip_dots(Tail(t))
    ELSE IF t /= <<>> /\ t[Len(t)] = "." THEN strip_dots(SubSeq(t, 1, Len(t) - 1))
         ELSE t

\* (\d+) sep (\d+) sep (\d+) matching the whole of the text t, with sep one
\* character of seps: the three digit groups, or <<>> when t has another shape
numeric_groups(t, seps) ==
    LET a == run(t, Digits)
        r1 == drop(t, Len(a))
        b == IF r1 /= <<>> THEN run(Tail(r1), Digits) ELSE <<>>
        r2 == IF r1 /= <<>> THEN drop(Tail(r1), Len(b)) ELSE <<>>
        c == IF r2 /= <<>> THEN Tail(r2) ELSE <<>>
    IN IF /\ r1 /= <<>> /\ Head(r1) \in seps
          /\ r2 /= <<>> /\ Head(r2) \in seps
          /\ a /= <<>> /\ b /= <<>> /\ digits(c, 1, Len(c) + 1)
       THEN <<a, b, c>> ELSE <<>>

DATE_SEPARATORS == {".", "-", "/"}

\* y = y+2000 if y<100 else y
short_year(y) == IF y < 100 THEN y + 2000 ELSE y

\* ^\s*(\d{4})[.\-\/](\d{1,2})[.\-\/](\d{1,2})\s*$
year_first(toks) ==
    LET g == IF Len(toks) = 1 THEN numeric_groups(toks[1], DATE_SEPARATORS) ELSE <<>>
    IN IF g /= <<>> /\ digits(g[1], 4, 4) /\ digits(g[2], 1, 2) /\ digits(g[3], 1, 2)
       THEN <<int(g[1]), int(g[2]), int(g[3])>> ELSE None

\* ^\s*(\d{1,2})sep(\d{1,2})sep(\d{2,4})\s*$ with sep one of seps
day_first(toks, seps) ==
    LET g == IF Len(toks) = 1 THEN numeric_groups(toks[1], seps) ELSE <<>>
    IN IF g /= <<>> /\ digits(g[1], 1, 2) /\ digits(g[2], 1, 2) /\ digits(g[3], 2, 4)
       THEN <<short_year(int(g[3])), int(g[2]), int(g[1])>> ELSE None

\* the triple of a matched month-name pattern, if the name is in the table
named(months, d, mon, y) ==
    IF strip_dots(mon) \in DOMAIN months
    THEN <<short_year(int(y)), months[strip_dots(mon)], int(d)>> ELSE None

\* ^\s*(\d{1,2})\s+([a-z\.]+)\s+(\d{2,4})\s*$
day_month_year(toks, letters, months) ==
    IF Len(toks) = 3 /\ digits(toks[1], 1, 2) /\ word(toks[2], letters) /\ digits(toks[3], 2, 4)
    THEN named(months, toks[1], lower(toks[2]), toks[3]) ELSE None

\* ^\s*([a-z\.]+)\s+(\d{1,2})(?:\s+)?(\d{2,4})\s*$: the space between the day
\* and the year is optional; without it the day takes two digits when at
\* least two are left for the year, else one
month_day_year(toks, months) ==
    IF Len(toks) = 3 /\ word(toks[1], AsciiLower) /\ digits(toks[2], 1, 2)
           /\ digits(toks[3], 2, 4)
    THEN named(months, toks[2], toks[1], toks[3])
    ELSE IF Len(toks) = 2 /\ word(toks[1], AsciiLower) /\ digits(toks[2], 3, 6)
         THEN LET k == IF Len(toks[2]) = 3 THEN 1 ELSE 2
              IN named(months, SubSeq(toks[2], 1, k), toks[1], drop(toks[2], k))
         ELSE None

\* ^\s*([A-Za-z\.]+)\s+(\d{1,2})(?:,)?\s+(\d{2,4})\s*$ of v1, on a text whose
\* commas were replaced by spaces
month_day_year_v1(toks, letters, months) ==
    IF Len(toks) = 3 /\ word(toks[1], letters) /\ digits(toks[2], 1, 2)
           /\ digits(toks[3], 2, 4)
    THEN named(months, toks[2], lower(toks[1]), toks[3]) ELSE None

DE == <<"d", "e">>

\* ^\s*(\d{1,2})\s+(?:de\s+)?([a-z\.]+)\s+(?:de\s+)?(\d{2,4})\s*$
spanish_long(toks, months) ==
    LET n == Len(toks)
        shape == /\ n \in 3..5
                 /\ digits(toks[1], 1, 2)
                 /\ digits(toks[n], 2, 4)
                 /\ \A i \in 2..(n - 1) : word(toks[i], AsciiLower)
        mon == IF n = 3 THEN toks[2]
               ELSE IF n = 4 THEN (IF toks[2] = DE THEN toks[3]
                                   ELSE IF toks[3] = DE THEN toks[2] ELSE <<>>)
               ELSE (IF toks[2] = DE /\ toks[4] = DE THEN toks[3] ELSE <<>>)
    IN IF shape /\ mon /= <<>> THEN named(months, toks[1], mon, toks[n]) ELSE None

\* what an exception leaves in place of a result
RAISED == <<"raised">>

\* parse_date_any of v2 from s.strip() on (lines 88-117): the patterns in the
\* order the code tries them; a month-name pattern whose name is not in the
\* table falls through; None has no strip()
match_date(s) ==
    IF s = None THEN RAISED
    ELSE IF strip(s) = <<>> THEN None
    ELSE LET s_spaces == strip(sub_comma_tab(strip(s)))
             s_norm == _strip_accents(lower(s_spaces))
             toks == split(s_norm)
         IN IF year_first(toks) /= None THEN year_first(toks)
            ELSE IF day_first(toks, DATE_SEPARATORS) /= None
                 THEN day_first(toks, DATE_SEPARATORS)
            ELSE IF day_month_year(toks, AsciiLower, MONTHS) /= None
                 THEN day_month_year(toks, AsciiLower, MONTHS)
            ELSE IF month_day_year(toks, MONTHS) /= None
                 THEN month_day_year(toks, MONTHS)
            ELSE IF spanish_long(toks, MONTHS) /= None
                 THEN spanish_long(toks, MONTHS)
            ELSE day_first(toks, {"/"})

parse_date_any_unguarded(s) == match_date(s)

\* parse_date_any of v2: "if not s: return None", then the patterns
parse_date_any(s) == IF s = None \/ s = <<>> THEN None ELSE match_date(s)

AsciiUpper ==
    {"A", "B", "C", "D", "E", "F", "G", "H", "I", "J", "K", "L", "M",
     "N", "O", "P", "Q", "R", "S", "T", "U", "V", "W", "X", "Y", "Z"}

\* parse_date_any of v1
parse_date_any_v1(s) ==
    IF s = None THEN None
    ELSE IF strip(s) = <<>> THEN None
    ELSE LET s1 == strip(replace_comma(strip(s)))
             toks == split(s1)
             letters == AsciiLower \cup AsciiUpper
         IN IF year_first(toks) /= None THEN year_first(toks)
            ELSE IF day_first(toks, DATE_SEPARATORS) /= None
                 THEN day_first(toks, DATE_SEPARATORS)
            ELSE IF day_month_year(toks, letters, MONTHS_v1) /= None
                 THEN day_month_year(toks, letters, MONTHS_v1)
            ELSE IF month_day_year_v1(toks, letters, MONTHS_v1) /= None
                 THEN month_day_year_v1(toks, letters, MONTHS_v1)
            ELSE day_first(toks, {"/"})

(***************************************************************************)
(* SpecDate and SpecDateV1: a text offered by the field menu, and the menu *)
(* entry "Set Date (parse)" of v2 and of v1 applied to it.                 *)
(***************************************************************************)
Years == {23, 1999, 2023}

MonthNumbers == 1..12

Days == {1, 9, 23, 31}

Triples == {<<y, m, d>> : y \in Years, m \in MonthNumbers, d \in Days}

capitalize(w) == <<tr(w[1], LowerChars, UpperChars)>> \o Tail(w)

\* the names and abbreviations of month m in the table of v2, as written in a
\* document: lower case, capitalised, or followed by a dot
MonthNames(m) ==
    LET keys == {k \in DOMAIN MONTHS : MONTHS[k] = m}
    IN keys \cup {capitalize(k) : k \in keys} \cup {k \o <<".">> : k \in keys}

\* a year written with 4 or with 2 digits
YearText(y, n) == IF n = 4 THEN zero_padded(y, 4) ELSE zero_padded(y % 100, 2)

SP == <<" ">>

\* the supported textual forms of a triple
Formats(t) ==
    LET y == t[1]
        m == t[2]
        d == t[3]
    IN {[form |-> "year-first", year_digits |-> 4,
         text |-> YearText(y, 4) \o <<sep>> \o zero_padded(m, w) \o <<sep>> \o zero_padded(d, w)] :
            sep \in DATE_SEPARATORS, w \in {1, 2}}
       \cup
       {[form |-> "day-first", year_digits |-> n,
         text |-> zero_padded(d, w) \o <<sep>> \o zero_padded(m, w) \o <<sep>> \o YearText(y, n)] :
            sep \in DATE_SEPARATORS, w \in {1, 2}, n \in {2, 4}}
       \cup
       {[form |-> "day month-name year", year_digits |-> n,
         text |-> str(d) \o SP \o name \o SP \o YearText(y, n)] :
            name \in MonthNames(m), n \in {2, 4}}
       \cup
       {[form |-> "month-name day year", year_digits |-> n,
         text |-> name \o SP \o str(d) \o <<",", " ">> \o YearText(y, n)] :
            name \in MonthNames(m), n \in {2, 4}}
       \cup
       {[form |-> "spanish long", year_digits |-> n,
         text |-> str(d) \o SP \o DE \o SP \o name \o SP \o DE \o SP \o YearText(y, n)] :
            name \in MonthNames(m), n \in {2, 4}}

NOT_A_DATE == <<"n", "o", "t", " ", "a", " ", "d", "a", "t", "e">>

\* texts that are no date, and the absent value
OtherTexts ==
    { None, <<>>, <<" ">>, <<",">>, <<"\t", " ">>, NOT_A_DATE,
      <<"2", "3", " ", "d", "e", " ", "2", "0", "2", "3">>,
      <<"2", "3", " ", "x", "y", "z", " ", "2", "0", "2", "3">>,
      <<"f", "e", "b", " ", "1", "2", "3">>,
      <<"f", "e", "b", " ", "2", "3", "2", "0", "2", "3">>,
      <<"1", "/", "2", "/", "1", "2", "3">>,
      <<"2", "0", "2", "3", "-", "0", "2">>,
      <<".", ".", ".">>,
      <<"2", "0", "2", "3", "-", "1", "3", "-", "4", "5">>,
      <<"0", ".", "0", ".", "2", "0", "2", "3">>,
      <<"4", "5", " ", "f", "e", "b", " ", "2", "0", "2", "3">>,
      <<"F", "e", "b", "r", "u", "a", "r", "y", " ", "2", "0", "2", "3">>,
      <<"f", "e", "b", " ", "2", "3">> }

\* the window with its field menu open on a text; form, year_digits and triple
\* record the date the text was written from and the way it was written
InitDate ==
    /\ Construct
    /\ csv_file = <<>>
    /\ IndexIs(_load_csv_suggestions_and_indices(EmptyIndex, csv_file).ix)
    /\ ingested = <<>>
    /\ \/ \E t \in Triples : \E f \in Formats(t) :
              last = [op |-> "_popup_field_menu", text |-> f.text, form |-> f.form,
                      year_digits |-> f.year_digits, triple |-> t]
       \/ \E text \in OtherTexts :
              last = [op |-> "_popup_field_menu", text |-> text, form |-> "other",
                      year_digits |-> 0, triple |-> <<>>]

\* _apply_date_from_text(txt) around a parser
apply_date(f, parsed) ==
    IF parsed \notin {None, RAISED}
    THEN [f EXCEPT !["year"] = zero_padded(parsed[1], 4),
                   !["month"] = zero_padded(parsed[2], 2),
                   !["day"] = zero_padded(parsed[3], 2)]
    ELSE f

\* "Set Date (parse)" of v2
ApplyDateFromText ==
    /\ last.op = "_popup_field_menu"
    /\ LET parsed == parse_date_any(last.text)
       IN /\ form' = apply_date(form, parsed)
          /\ last' = [op |-> "_apply_date_from_text", txt |-> last.text,
                      parsed |-> parsed, raised |-> parsed = RAISED, form |-> last.form,
                      year_digits |-> last.year_digits, triple |-> last.triple]
    /\ UNCHANGED <<files, idx, page, ai_cache, csv_file, ai_cache_csv, sugg_fields, ingested>>
    /\ UNCHANGED indexVars

NextDate == ApplyDateFromText

SpecDate == InitDate /\ [][NextDate]_vars

\* "Set Date (parse)" of v1
ApplyDateFromText_v1 ==
    /\ last.op = "_popup_field_menu"
    /\ LET parsed == parse_date_any_v1(last.text)
       IN /\ form' = apply_date(form, parsed)
          /\ last' = [op |-> "_apply_date_from_text", txt |-> last.text,
                      parsed |-> parsed, raised |-> parsed = RAISED, form |-> last.form,
                      year_digits |-> last.year_digits, triple |-> last.triple]
    /\ UNCHANGED <<files, idx, page, ai_cache, csv_file, ai_cache_csv, sugg_fields, ingested>>
    /\ UNCHANGED indexVars

NextDateV1 == ApplyDateFromText_v1

SpecDateV1 == InitDate /\ [][NextDateV1]_vars

(***************************************************************************)
(* Properties of the date parser.                                          *)
(***************************************************************************)
DateApplied == last.op = "_apply_date_from_text"

FEB_23_2023 ==
    { <<"2", "0", "2", "3", "-", "0", "2", "-", "2", "3">>,
      <<"2", "3", "/", "0", "2", "/", "2", "0", "2", "3">>,
      <<"2", "3", " ", "F", "e", "b", " ", "2", "0", "2", "3">>,
      <<"F", "e", "b", " ", "2", "3", ",", " ", "2", "0", "2", "3">>,
      <<"2", "3", " ", "d", "e", " ", "f", "e", "b", "r", "e", "r", "o", " ", "d", "e", " ",
        "2", "0", "2", "3">> }

\* C11: parse_date_any returns (2023, 2, 23) for "2023-02-23", "23/02/2023",
\* "23 Feb 2023", "Feb 23, 2023" and "23 de febrero de 2023"; the year-first,
\* day-first, day month-name year, month-name day year and Spanish long forms
\* of one date parse to the same triple.
C11_SameTriple ==
    DateApplied =>
        /\ last.txt \in FEB_23_2023 => last.parsed = <<2023, 2, 23>>
        /\ (last.year_digits = 4 /\ last.triple[1] >= 1000) => last.parsed = last.triple


\* C12: parse_date_any is total: for every text, the empty text, the absent
\* value and text matching no pattern included, it returns a triple or no
\* result and never raises; "not a date" and the empty text yield no result.
C12_Total ==
    DateApplied =>
        /\ ~last.raised
        /\ \/ last.parsed = None
           \/ /\ Len(last.parsed) = 3
              /\ \A i \in 1..3 : last.parsed[i] \in Nat
        /\ last.txt \in {None, <<>>, NOT_A_DATE} => last.parsed = None

\* C12 witness: the absent value was parsed, with no result
C12_Witness ==
    /\ DateApplied
    /\ last.txt = None
    /\ last.parsed = None
    /\ ~last.raised

\* C13: for every triple and every supported textual form, formatting the
\* triple in that form and parsing the text returns the triple.
C13_RoundTrip ==
    (DateApplied /\ last.form /= "other") => last.parsed = last.triple

ShortYearForms == {"day-first", "day month-name year", "month-name day year", "spanish long"}

\* C14: in every pattern that accepts a short year, a year written with exactly
\* two digits yy is returned as 2000 + yy and a year written with four digits
\* is returned unchanged.
C14_ShortYear ==
    (DateApplied /\ last.form \in ShortYearForms /\ last.parsed /= None) =>
        /\ last.year_digits = 2 => last.parsed[1] = 2000 + (last.triple[1] % 100)
        /\ last.year_digits = 4 => last.parsed[1] = last.triple[1]


\* C27: every triple returned by parse_date_any is a calendar triple, with a
\* month between 1 and 12 and a day between 1 and 31, for the numeric patterns
\* as for the month-name patterns; text whose month or day number is outside
\* these ranges yields no result.
C27_CalendarTriple ==
    (DateApplied /\ last.parsed \notin {None, RAISED}) =>
        /\ last.parsed[2] \in 1..12
        /\ last.parsed[3] \in 1..31

\* a month name of the table followed by one single number
MonthAndOneNumber(text) ==
    /\ text /= None
    /\ LET toks == split(sub_comma_tab(lower(text)))
       IN /\ Len(toks) = 2
          /\ strip_dots(toks[1]) \in DOMAIN MONTHS
          /\ toks[2] /= <<>>
          /\ \A i \in DOMAIN toks[2] : toks[2][i] \in Digits

\* C28: the month-first pattern matches only a month name, a day number and a
\* year number, the day and the year separated by whitespace; a month name
\* followed by one single number yields no result.
C28_MonthFirstNeedsDay ==
    (DateApplied /\ MonthAndOneNumber(last.txt)) => last.parsed = None

(***************************************************************************)
(* Text selection on the page.  A word of page.get_text("words") is a      *)
(* record [x0, y0, x1, y1, text, block, line] in document units.  The zoom *)
(* is 3/2, so a pixel coordinate x is the document coordinate 2x/3; the    *)
(* comparisons of the code are made on both sides multiplied by 3 (or 6,   *)
(* where a midpoint is halved), which keeps them exact.                    *)
(***************************************************************************)
\* self.zoom = 1.5 = ZOOM_NUM / ZOOM_DEN
ZOOM_NUM == 3

ZOOM_DEN == 2

\* the gap below which a currency marker is glued
CURRENCY_GAP == 20

\* the gap below which numeric and name pieces are glued
PIECE_GAP == 25

Abs(n) == IF n < 0 THEN 0 - n ELSE n

\* min and max of a non-empty set of numbers
MinOf(S) == CHOOSE m \in S : \A n \in S : m <= n

MaxOf(S) == CHOOSE m \in S : \A n \in S : m >= n

\* the keys (block, line) of by_line, in the order of their insertion
RECURSIVE line_keys(_)
line_keys(words) ==
    IF words = <<>> THEN <<>>
    ELSE LET rest == line_keys(SubSeq(words, 1, Len(words) - 1))
             w == words[Len(words)]
             key == <<w.block, w.line>>
         IN IF \E i \in DOMAIN rest : rest[i] = key THEN rest ELSE Append(rest, key)

\* by_line[key]: the words of a line, in input order
RECURSIVE by_line(_, _)
by_line(words, key) ==
    IF words = <<>> THEN <<>>
    ELSE (IF <<Head(words).block, Head(words).line>> = key THEN <<Head(words)>> ELSE <<>>)
             \o by_line(Tail(words), key)

\* abs(mid - pdf_y) of a line, times 2 * ZOOM_NUM
line_dist(ws, y) ==
    Abs(ZOOM_NUM * (MinOf({ws[i].y0 : i \in DOMAIN ws}) + MaxOf({ws[i].y1 : i \in DOMAIN ws}))
            - 2 * ZOOM_DEN * y)

\* the loop with <= in place of <: the last of the nearest lines wins
RECURSIVE best_line_key_last(_, _, _, _)
best_line_key_last(words, keys, y, best) ==
    IF keys = <<>> THEN best
    ELSE IF best = None
            \/ line_dist(by_line(words, Head(keys)), y) <= line_dist(by_line(words, best), y)
         THEN best_line_key_last(words, Tail(keys), y, Head(keys))
         ELSE best_line_key_last(words, Tail(keys), y, best)

\* the loop over by_line.items(): a later line replaces the best one only when
\* it is strictly nearer
RECURSIVE best_line_key(_, _, _, _)
best_line_key(words, keys, y, best) ==
    IF keys = <<>> THEN best
    ELSE IF best = None
            \/ line_dist(by_line(words, Head(keys)), y) < line_dist(by_line(words, best), y)
         THEN best_line_key(words, Tail(keys), y, Head(keys))
         ELSE best_line_key(words, Tail(keys), y, best)

\* sorted(ws, key=lambda w: w[0]): a stable sort by x0
RECURSIVE sorted_by_x0(_)
sorted_by_x0(ws) ==
    IF ws = <<>> THEN <<>>
    ELSE LET init == sorted_by_x0(SubSeq(ws, 1, Len(ws) - 1))
             w == ws[Len(ws)]
             k == Cardinality({i \in DOMAIN init : init[i].x0 <= w.x0})
         IN SubSeq(init, 1, k) \o <<w>> \o SubSeq(init, k + 1, Len(init))

\* abs(centre - pdf_x) of a word, times 2 * ZOOM_NUM
centre_dist(w, x) == Abs(ZOOM_NUM * (w.x0 + w.x1) - 2 * ZOOM_DEN * x)

\* the index in line_words of the picked word: the first word whose left edge
\* is at or right of the click, else the first of the words nearest by centre;
\* line_words.index(picked) is the first word equal to it
picked_index(line_words, x) ==
    LET right == {i \in DOMAIN line_words : ZOOM_NUM * line_words[i].x0 >= ZOOM_DEN * x}
        nearest == {i \in DOMAIN line_words :
                       \A j \in DOMAIN line_words :
                           centre_dist(line_words[i], x) <= centre_dist(line_words[j], x)}
        p == IF right /= {} THEN MinOf(right) ELSE MinOf(nearest)
    IN MinOf({i \in DOMAIN line_words : line_words[i] = line_words[p]})

EURO == <<"EURO_SIGN">>

\* currency = {"€", "eur", "euro", "euros"}
currency == { EURO, <<"e", "u", "r">>, <<"e", "u", "r", "o">>, <<"e", "u", "r", "o", "s">> }

\* re.match(r'^[€]?$|^[\d.,]+$', t)
is_numlike(t) ==
    \/ t = <<>>
    \/ t = EURO
    \/ \A i \in DOMAIN t : t[i] \in Digits \cup {".", ","}

\* the characters of the range À-ÿ that the alphabet of the model holds
LatinSupplement == {AccentedChars[i] : i \in DOMAIN AccentedChars}

\* re.match(r"^[A-Za-zÀ-ÿ&'.-]+$", t)
is_namepiece(t) ==
    /\ t /= <<>>
    /\ \A i \in DOMAIN t :
           t[i] \in AsciiLower \cup AsciiUpper \cup LatinSupplement \cup {"&", "'", ".", "-"}

\* gap(i, j) = ws[j][0] - ws[i][2]
gap(ws, i, j) == ws[j].x0 - ws[i].x1

\* a while loop that expands to the left from index j: the indexes it
\* prepends, ascending
RECURSIVE expand_left(_, _, _)
expand_left(ws, j, numeric) ==
    IF j >= 1 /\ (IF numeric THEN is_numlike(ws[j].text) ELSE is_namepiece(ws[j].text))
              /\ gap(ws, j, j + 1) < PIECE_GAP
    THEN Append(expand_left(ws, j - 1, numeric), j)
    ELSE <<>>

\* the right expansion without its gap test
RECURSIVE expand_right_any_gap(_, _, _)
expand_right_any_gap(ws, j, numeric) ==
    IF j <= Len(ws) /\ (IF numeric THEN is_numlike(ws[j].text) ELSE is_namepiece(ws[j].text))
    THEN <<j>> \o expand_right_any_gap(ws, j + 1, numeric)
    ELSE <<>>

\* a while loop that expands to the right from index j: the indexes it appends
RECURSIVE expand_right(_, _, _)
expand_right(ws, j, numeric) ==
    IF j <= Len(ws) /\ (IF numeric THEN is_numlike(ws[j].text) ELSE is_namepiece(ws[j].text))
                    /\ gap(ws, j - 1, j) < PIECE_GAP
    THEN <<j>> \o expand_right(ws, j + 1, numeric)
    ELSE <<>>

\* the indexes (from 1) of the words whose texts glue_amount_or_name puts into
\* its token, in the order of the token
glue_indexes(ws, pick) ==
    LET left_currency == /\ pick - 1 >= 1
                         /\ lower(ws[pick - 1].text) \in currency
                         /\ gap(ws, pick - 1, pick) < CURRENCY_GAP
        right_currency == /\ pick + 1 <= Len(ws)
                          /\ lower(ws[pick + 1].text) \in currency
                          /\ gap(ws, pick, pick + 1) < CURRENCY_GAP
        i == IF left_currency THEN pick - 1 ELSE pick
        token == (IF left_currency THEN <<pick - 1>> ELSE <<>>) \o <<pick>>
                     \o (IF right_currency THEN <<pick + 1>> ELSE <<>>)
    IN expand_left(ws, i - 1, FALSE) \o expand_left(ws, i - 1, TRUE) \o token
           \o expand_right(ws, pick + 1, TRUE) \o expand_right(ws, pick + 1, FALSE)

\* ' '.join(texts)
RECURSIVE join_spaces(_)
join_spaces(texts) ==
    IF texts = <<>> THEN <<>>
    ELSE IF Len(texts) = 1 THEN texts[1]
         ELSE texts[1] \o <<" ">> \o join_spaces(Tail(texts))

glue_amount_or_name(ws, pick) ==
    LET ix == glue_indexes(ws, pick)
    IN strip(join_spaces([k \in DOMAIN ix |-> ws[ix[k]].text]))

\* the first definition of on_pdf_click (lines 675-759), from the words of the
\* page on: the picked line, the picked word and the composite text handed to
\* _popup_field_menu; None where it returns without a menu
on_pdf_click_first(words, x, y) ==
    IF words = <<>> THEN [text |-> None, line_key |-> None, picked |-> 0, glued |-> <<>>,
                          line_words |-> <<>>]
    ELSE LET key == best_line_key(words, line_keys(words), y, None)
             line_words == sorted_by_x0(by_line(words, key))
             pick == picked_index(line_words, x)
         IN [text |-> glue_amount_or_name(line_words, pick), line_key |-> key, picked |-> pick,
             glued |-> glue_indexes(line_words, pick), line_words |-> line_words]

\* the bound (second) definition of on_pdf_click (lines 1057-1092): the word
\* whose centre is nearest to the click, the first one on a tie; the distance
\* is squared and multiplied by (2 * ZOOM_NUM)^2
centre_dist2(w, x, y) ==
    (ZOOM_NUM * (w.x0 + w.x1) - 2 * ZOOM_DEN * x) * (ZOOM_NUM * (w.x0 + w.x1) - 2 * ZOOM_DEN * x)
        + (ZOOM_NUM * (w.y0 + w.y1) - 2 * ZOOM_DEN * y) * (ZOOM_NUM * (w.y0 + w.y1) - 2 * ZOOM_DEN * y)

on_pdf_click(words, x, y) ==
    IF words = <<>> THEN None
    ELSE LET best == MinOf({i \in DOMAIN words :
                               \A j \in DOMAIN words :
                                   centre_dist2(words[i], x, y) <= centre_dist2(words[j], x, y)})
             text == strip(words[best].text)
         IN IF text = <<>> THEN None ELSE text

\* fitz.Rect.intersects: the common part of the two rectangles is not empty;
\* an empty rectangle (x0 >= x1 or y0 >= y1) intersects nothing.  The
\* selection is rect / zoom; both sides are multiplied by ZOOM_NUM.
intersects(w, rect) ==
    /\ w.x0 < w.x1 /\ w.y0 < w.y1
    /\ rect.left < rect.right /\ rect.top < rect.bottom
    /\ Max(ZOOM_NUM * w.x0, ZOOM_DEN * rect.left) < Min(ZOOM_NUM * w.x1, ZOOM_DEN * rect.right)
    /\ Max(ZOOM_NUM * w.y0, ZOOM_DEN * rect.top) < Min(ZOOM_NUM * w.y1, ZOOM_DEN * rect.bottom)

\* picked.sort(key=lambda w: (w[5], w[6], w[0])): a stable sort
key_le(a, b) ==
    \/ a.block < b.block
    \/ a.block = b.block /\ a.line < b.line
    \/ a.block = b.block /\ a.line = b.line /\ a.x0 <= b.x0

\* the picked words left in input order
unsorted(ws) == ws

RECURSIVE sorted_reading(_)
sorted_reading(ws) ==
    IF ws = <<>> THEN <<>>
    ELSE LET init == sorted_reading(SubSeq(ws, 1, Len(ws) - 1))
             w == ws[Len(ws)]
             k == Cardinality({i \in DOMAIN init : key_le(init[i], w)})
         IN SubSeq(init, 1, k) \o <<w>> \o SubSeq(init, k + 1, Len(init))

\* on_pdf_box: the text handed to _popup_field_menu, None where it returns
\* without a menu
on_pdf_box(words, rect) ==
    IF words = <<>> THEN None
    ELSE LET picked == sorted_reading(SelectSeq(words, LAMBDA w : intersects(w, rect)))
             text == strip(join_spaces([k \in DOMAIN picked |-> picked[k].text]))
         IN IF text = <<>> THEN None ELSE text

(***************************************************************************)
(* SpecSnap, SpecBox and SpecClick: a page of words on screen, and one     *)
(* selection made on it.  SpecSnap applies the first definition of         *)
(* on_pdf_click, SpecBox applies on_pdf_box, SpecClick applies the         *)
(* definition of on_pdf_click that the class binds.                        *)
(***************************************************************************)
MaxWords == 3

AMOUNT == <<"1", "2", "0", ",", "5", "0">>

ACME == <<"A", "c", "m", "e">>

CORP == <<"C", "o", "r", "p">>

WordTexts == {EURO, AMOUNT, ACME, CORP}

\* the gaps between neighbours: below both thresholds, at the currency
\* threshold, at the piece threshold
Gaps == {10, 20, 25}

\* a line of words 30 units wide, from x = 0 on, with the given gaps; the
\* first word is 10 units high from y = 0, the others from y = 2
RECURSIVE line_x0(_, _)
line_x0(gaps, k) == IF k = 1 THEN 0 ELSE line_x0(gaps, k - 1) + 30 + gaps[k - 1]

Line0(texts, gaps) ==
    [k \in DOMAIN texts |->
        [x0 |-> line_x0(gaps, k), x1 |-> line_x0(gaps, k) + 30,
         y0 |-> IF k = 1 THEN 0 ELSE 2, y1 |-> IF k = 1 THEN 10 ELSE 12,
         text |-> texts[k], block |-> 0, line |-> 0]]

\* the one word of the line below
Line1 == <<[x0 |-> 0, x1 |-> 30, y0 |-> 22, y1 |-> 32, text |-> CORP, block |-> 0, line |-> 1]>>

Reverse(q) == [i \in DOMAIN q |-> q[Len(q) + 1 - i]]

SeqsOfLen(S, n) == [1..n -> S]

\* the pages: the empty page, and two lines in reading order or in the
\* opposite order
Pages ==
    {<<>>}
    \cup UNION { UNION { { Line0(texts, gaps) \o Line1, Line1 \o Reverse(Line0(texts, gaps)) } :
                            texts \in SeqsOfLen(WordTexts, n), gaps \in SeqsOfLen(Gaps, n - 1) } :
                    n \in 1..MaxWords }

\* the pixel coordinates of the clicks
ClickXs == {0, 66, 150, 600}

ClickYs == {0, 24, 45}

\* the selection rectangles, by QRect.left(), top(), right(), bottom()
Rects ==
    { [left |-> l, top |-> t, right |-> r, bottom |-> b] :
          l \in {0, 50}, t \in {0, 20}, r \in {44, 60, 300}, b \in {15, 60} }

InitPage ==
    /\ Construct
    /\ csv_file = <<>>
    /\ IndexIs(_load_csv_suggestions_and_indices(EmptyIndex, csv_file).ix)
    /\ ingested = <<>>
    /\ \E words \in Pages : last = [op |-> "load_page", words |-> words]

SelectionUnchanged ==
    /\ UNCHANGED <<files, idx, page, form, ai_cache, csv_file, ai_cache_csv, sugg_fields,
                   ingested>>
    /\ UNCHANGED indexVars

\* a click resolved by the first definition of on_pdf_click
OnPdfClickFirst ==
    /\ last.op = "load_page"
    /\ \E x \in ClickXs, y \in ClickYs :
           last' = [op |-> "on_pdf_click_first", words |-> last.words, x |-> x, y |-> y,
                    sel |-> on_pdf_click_first(last.words, x, y)]
    /\ SelectionUnchanged

NextSnap == OnPdfClickFirst

SpecSnap == InitPage /\ [][NextSnap]_vars

\* boxSelected -> on_pdf_box
OnPdfBox ==
    /\ last.op = "load_page"
    /\ \E rect \in Rects :
           last' = [op |-> "on_pdf_box", words |-> last.words, rect |-> rect,
                    text |-> on_pdf_box(last.words, rect)]
    /\ SelectionUnchanged

NextBox == OnPdfBox

SpecBox == InitPage /\ [][NextBox]_vars

\* clickedAt -> on_pdf_click, the definition bound by the class
OnPdfClick ==
    /\ last.op = "load_page"
    /\ \E x \in ClickXs, y \in ClickYs :
           last' = [op |-> "on_pdf_click", words |-> last.words, x |-> x, y |-> y,
                    text |-> on_pdf_click(last.words, x, y),
                    sel |-> on_pdf_click_first(last.words, x, y)]
    /\ SelectionUnchanged

NextClick == OnPdfClick

SpecClick == InitPage /\ [][NextClick]_vars


(***************************************************************************)
(* Properties of text selection.                                           *)
(***************************************************************************)
Snapped == last.op = "on_pdf_click_first" /\ last.words /= <<>>

LineOf(w) == <<w.block, w.line>>

\* the words of a (block, line) group, as a set of indexes into the page
Group(words, g) == {i \in DOMAIN words : LineOf(words[i]) = g}

\* twice the distance of the vertical midpoint of a group to y / zoom, times
\* ZOOM_NUM
MidDistance(words, g, y) ==
    Abs(ZOOM_NUM * (MinOf({words[i].y0 : i \in Group(words, g)})
                        + MaxOf({words[i].y1 : i \in Group(words, g)}))
            - 2 * ZOOM_DEN * y)

\* twice the distance of the horizontal centre of a word to x / zoom, times
\* ZOOM_NUM
CentreDistance(w, x) == Abs(ZOOM_NUM * (w.x0 + w.x1) - 2 * ZOOM_DEN * x)

\* the left edge of the word is at or right of x / zoom
RightOf(w, x) == ZOOM_NUM * w.x0 >= ZOOM_DEN * x

\* C15: the first on_pdf_click picks the (block, line) group whose vertical
\* midpoint is nearest to y / zoom, the first such group in input order on a
\* tie; within that line sorted by x0 it picks the first token with
\* x0 >= x / zoom, and when there is none the token whose horizontal centre is
\* nearest to x / zoom.
C15_PickedToken ==
    Snapped =>
        LET words == last.words
            g == last.sel.line_key
            lw == last.sel.line_words
            p == last.sel.picked
            groups == {LineOf(words[i]) : i \in DOMAIN words}
            nearest == {h \in groups :
                           \A k \in groups :
                               MidDistance(words, h, last.y) <= MidDistance(words, k, last.y)}
        IN /\ g \in nearest
           /\ \A h \in nearest : MinOf(Group(words, g)) <= MinOf(Group(words, h))
           /\ Len(lw) = Cardinality(Group(words, g))
           /\ \A i \in Group(words, g) : \E k \in DOMAIN lw : lw[k] = words[i]
           /\ \A k \in 1..(Len(lw) - 1) : lw[k].x0 <= lw[k + 1].x0
           /\ p \in DOMAIN lw
           /\ (\E k \in DOMAIN lw : RightOf(lw[k], last.x)) =>
                  /\ RightOf(lw[p], last.x)
                  /\ \A k \in 1..(p - 1) : ~RightOf(lw[k], last.x)
           /\ (\A k \in DOMAIN lw : ~RightOf(lw[k], last.x)) =>
                  \A k \in DOMAIN lw :
                      CentreDistance(lw[p], last.x) <= CentreDistance(lw[k], last.x)

\* C15 witness: two lines at the same distance of the click, the line below
\* first in input order and picked, and no word right of the click
C15_Witness ==
    /\ Snapped
    /\ Cardinality({LineOf(last.words[i]) : i \in DOMAIN last.words}) = 2
    /\ MidDistance(last.words, <<0, 0>>, last.y) = MidDistance(last.words, <<0, 1>>, last.y)
    /\ last.sel.line_key = <<0, 1>>
    /\ \A k \in DOMAIN last.sel.line_words : ~RightOf(last.sel.line_words[k], last.x)

\* the picked line is a currency marker and an amount, in either order, with a
\* gap below the currency threshold
MarkerAndAmount(lw) ==
    /\ Len(lw) = 2
    /\ {lw[1].text, lw[2].text} = {EURO, AMOUNT}
    /\ lw[2].x0 - lw[1].x1 < CURRENCY_GAP

\* C16: for a line of a currency marker and an amount with a gap below 20, in
\* either order, point selection that picks either token returns the two
\* tokens glued once each in left-to-right order.
C16_CurrencyGlue ==
    (Snapped /\ MarkerAndAmount(last.sel.line_words)) =>
        last.sel.text = last.sel.line_words[1].text \o <<" ">> \o last.sel.line_words[2].text

\* two name words with a gap below the piece threshold and a third word at or
\* beyond it
NameAndStranger(lw) ==
    /\ Len(lw) = 3
    /\ lw[1].text = ACME /\ lw[2].text = CORP
    /\ lw[2].x0 - lw[1].x1 < PIECE_GAP
    /\ lw[3].x0 - lw[2].x1 >= PIECE_GAP

\* C17: every token of the composite string is in the line of the picked
\* token and is joined to it by a chain of adjacent tokens whose gaps are all
\* below 25; for "Acme", "Corp" with a gap below 25 and a third token at or
\* beyond the threshold, picking either word yields "Acme Corp".
C17_GlueWithinGaps ==
    Snapped =>
        LET lw == last.sel.line_words
            p == last.sel.picked
            glued == last.sel.glued
        IN /\ \E k \in DOMAIN glued : glued[k] = p
           /\ last.sel.text = join_spaces([k \in DOMAIN glued |-> lw[glued[k]].text])
           /\ \A k \in DOMAIN glued :
                  /\ glued[k] \in DOMAIN lw
                  /\ LineOf(lw[glued[k]]) = LineOf(lw[p])
                  /\ \A j \in Min(glued[k], p)..(Max(glued[k], p) - 1) :
                         lw[j + 1].x0 - lw[j].x1 < PIECE_GAP
           /\ (NameAndStranger(lw) /\ p \in {1, 2}) =>
                  last.sel.text = ACME \o <<" ">> \o CORP

\* C17 witness: "Corp" picked between "Acme" and a third name word at gap 25
C17_Witness ==
    /\ Snapped
    /\ NameAndStranger(last.sel.line_words)
    /\ last.sel.line_words[3].text = ACME
    /\ last.sel.picked = 2
    /\ last.sel.text = ACME \o <<" ">> \o CORP

BoxSelected == last.op = "on_pdf_box"

\* the bounding box of the word and the rectangle / zoom have a common part
Overlaps(w, rect) ==
    /\ ZOOM_NUM * w.x0 < ZOOM_DEN * rect.right /\ ZOOM_DEN * rect.left < ZOOM_NUM * w.x1
    /\ ZOOM_NUM * w.y0 < ZOOM_DEN * rect.bottom /\ ZOOM_DEN * rect.top < ZOOM_NUM * w.y1

\* word a comes before word b in reading order
Before(a, b) ==
    \/ a.block < b.block
    \/ a.block = b.block /\ a.line < b.line
    \/ a.block = b.block /\ a.line = b.line /\ a.x0 < b.x0

\* C18: on_pdf_box returns the texts of exactly the tokens whose bounding box
\* intersects the rectangle converted to document units, ordered by
\* (block_id, line_id, x0) and joined by single spaces, whatever the order of
\* the tokens in the input; no result when no token intersects or the page has
\* no tokens.
C18_BoxReadingOrder ==
    BoxSelected =>
        LET words == last.words
            hit == {i \in DOMAIN words : Overlaps(words[i], last.rect)}
            rank(i) == 1 + Cardinality({j \in hit : Before(words[j], words[i])})
            expected == [k \in 1..Cardinality(hit) |->
                            words[CHOOSE i \in hit : rank(i) = k].text]
        IN IF hit = {} THEN last.text = None
           ELSE last.text = join_spaces(expected)

\* C18 witness: a rectangle over words of both lines of a page whose input
\* order is not the reading order
C18_Witness ==
    /\ BoxSelected
    /\ last.words /= <<>>
    /\ LineOf(last.words[1]) = <<0, 1>>
    /\ Cardinality({i \in DOMAIN last.words : Overlaps(last.words[i], last.rect)}) >= 3
    /\ \E i \in DOMAIN last.words :
           LineOf(last.words[i]) = <<0, 1>> /\ Overlaps(last.words[i], last.rect)
    /\ last.text /= None

\* C19: a single click on the page is resolved by the snap-right-and-glue
\* algorithm: the text offered to the field menu is the composite string of
\* the picked token of the nearest line with its glued neighbours.
C19_ClickSnapsAndGlues ==
    (last.op = "on_pdf_click" /\ last.words /= <<>>) => last.text = last.sel.text

(***************************************************************************)
(* Provider names under normalize_provider.  The index is built from a     *)
(* file of two records that agree in everything but the provider: the      *)
(* first carries a plain name, the second a spelling of a name with other  *)
(* letter case, other separators and legal-entity words around it.         *)
(***************************************************************************)
upper(s) == [i \in DOMAIN s |-> tr(s[i], LowerChars, UpperChars)]

ACME_PLAIN == <<"a", "c", "m", "e">>

TWO_E == <<"2", "e_acute">>

ACME_GMBH == <<"A", "c", "m", "e", " ", "G", "m", "b", "H">>

ACME_GMBH_DOT == <<"A", "C", "M", "E", " ", "G", "m", "b", "h", ".">>

PlainNames == {<<>>, ACME_PLAIN, ACME_GMBH, ACME_PLAIN \o SP \o TWO_E}

BaseWords == {<<>>, <<ACME_PLAIN>>, <<ACME_PLAIN, TWO_E>>}

CaseForms(w) == {w, upper(w), capitalize(w)}

\* runs of characters that are neither letters nor digits
Separators == {SP, <<"-">>, <<"_">>}

Edges == {<<>>, <<".">>}

LegalWords ==
    {<<"G", "m", "b", "H">>, <<"G", "m", "b", "h">>, <<"s", "a">>}

THE == <<"T", "h", "e">>

\* the spellings of a list of words: each word in one of its case forms, one
\* separator between the words, a legal-entity word in front or behind or
\* none, and an edge on either side
Spellings(ws) ==
    LET cores == IF ws = <<>> THEN {<<>>}
                 ELSE IF Len(ws) = 1 THEN CaseForms(ws[1])
                 ELSE {a \o sep \o b : a \in CaseForms(ws[1]), b \in CaseForms(ws[2]),
                                       sep \in Separators}
        behind == {<<>>} \cup {sep \o w : sep \in Separators, w \in LegalWords}
        front == {<<>>, THE \o SP}
    IN {l \o f \o c \o b \o t :
            l \in {<<>>}, f \in front, c \in cores, b \in behind, t \in Edges}

ProviderNames == UNION {Spellings(ws) : ws \in BaseWords}

InitNorm ==
    /\ Construct
    /\ \E plain \in PlainNames, name \in ProviderNames :
          csv_file = <<CsvLine(FILE_A, plain, TAX1, 10), CsvLine(FILE_A, name, TAX1, 10)>>
    /\ csv_rows = <<>>
    /\ seen_by_filename = EmptyDict
    /\ freq_provider = EmptyDict
    /\ freq_taxid = EmptyDict
    /\ freq_iban = EmptyDict
    /\ group_index = EmptyDict
    /\ models = [provider |-> {}, taxid |-> {}, iban |-> {}]
    /\ ingested = <<>>
    /\ last = [op |-> "init", raised |-> FALSE, rows_before |-> 0]

SpecNorm == InitNorm /\ [][NextIndex]_vars

(***************************************************************************)
(* Properties of the normalised provider names.                            *)
(***************************************************************************)
Alphanumeric == AsciiLower \cup Digits \cup {LowerChars[i] : i \in DOMAIN LowerChars}

\* the maximal runs of letters and digits of a text
RECURSIVE AlnumWords(_)
AlnumWords(s) ==
    IF s = <<>> THEN <<>>
    ELSE IF Head(s) \in Alphanumeric
         THEN <<run(s, Alphanumeric)>> \o AlnumWords(drop(s, Len(run(s, Alphanumeric))))
         ELSE AlnumWords(Tail(s))

\* two names differ only in letter case, in runs of non-alphanumeric characters
\* and in whole-word legal-entity suffixes: in lower case their words, the
\* legal-entity words left out, are the same
SameNameWords(p, q) ==
    LET NotSuffix(w) == w \notin LEGAL_SUFFIXES
    IN SelectSeq(AlnumWords(lower(p)), NotSuffix)
           = SelectSeq(AlnumWords(lower(q)), NotSuffix)

\* the provider components of the grouping keys under which a record is filed
KeyProviders(row) ==
    {k[1] : k \in {g \in DOMAIN group_index : row \in Elems(group_index[g])}}

\* only a-z, 0-9 and single inner spaces, no space at either end, no stop-list word
WellFormedName(out) ==
    /\ \A i \in DOMAIN out : out[i] \in AsciiLower \cup Digits \cup {" "}
    /\ out /= <<>> => out[1] /= " " /\ out[Len(out)] /= " "
    /\ \A i \in 1..(Len(out) - 1) : ~(out[i] = " " /\ out[i + 1] = " ")
    /\ \A i \in DOMAIN Words(out) : Words(out)[i] \notin LEGAL_SUFFIXES

\* C20: normalize_provider is insensitive to letter case, to runs of
\* non-alphanumeric characters and to whole-word legal-entity suffixes: two
\* names that differ only in these respects have equal outputs ("Acme GmbH"
\* and "ACME_PLAIN Gmbh." among them); the output holds only a-z, 0-9 and single
\* inner spaces, has no leading or trailing space and no stop-list word; and an
\* empty input yields an empty output.
C20_NormalizedNames ==
    /\ \A k \in DOMAIN group_index : WellFormedName(k[1])
    /\ \A i \in DOMAIN ingested :
          LET row == DictReader(ingested[i])
          IN /\ KeyProviders(row) /= {}
             /\ row["provider"] = <<>> => KeyProviders(row) = {<<>>}
    /\ \A i, j \in DOMAIN ingested :
          LET r1 == DictReader(ingested[i])
              r2 == DictReader(ingested[j])
          IN SameNameWords(r1["provider"], r2["provider"])
                 => KeyProviders(r1) = KeyProviders(r2)

\* both spellings of the example are filed under the one name "acme"
C20_Witness ==
    /\ Len(ingested) = 2
    /\ DictReader(ingested[1])["provider"] = ACME_GMBH
    /\ DictReader(ingested[2])["provider"] = ACME_GMBH_DOT
    /\ \A k \in DOMAIN group_index : k[1] = ACME_PLAIN /\ Len(group_index[k]) = 2
    /\ Cardinality(DOMAIN group_index) = 1

(***************************************************************************)
(* The composite of glue_amount_or_name as a run of the line.              *)
(***************************************************************************)
\* C26: the composite built by glue_amount_or_name holds each token of the
\* line at most once and is a contiguous run of the line's tokens in ascending
\* x0 order that includes the picked token; a neighbour added by the currency
\* step is not added again by the numeric-fragment or name-piece step.
C26_ContiguousRun ==
    Snapped =>
        LET glued == last.sel.glued
        IN /\ \E k \in DOMAIN glued : glued[k] = last.sel.picked
           /\ \A k \in 1..(Len(glued) - 1) : glued[k + 1] = glued[k] + 1

(***************************************************************************)
(* SpecSuggV1: the suggestion lists of v1, which render_current, run_ai    *)
(* and batch_ai_cache fill from the AI cache only.  The cache entry of the *)
(* current file and the text of the form are drawn from the samples.       *)
(***************************************************************************)
\* populate_ai_from_cache of v1
populate_ai_from_cache_v1(cache, f, filename) ==
    [key \in FieldKeys |->
        LET entry == get(cache, filename, EmptyDict)
            candidates == get(entry, key, <<>>)
            cur == current_value_for(f, key)
        IN [items |-> candidates \o (IF cur /= <<>> THEN <<cur>> ELSE <<>>)
                          \o <<LEAVE_UNCHANGED, CLEAR_FIELD>>,
            current |-> 0]]

InitSuggV1 ==
    /\ files = <<FILE_A>>
    /\ idx = 0
    /\ page = 0
    /\ ai_cache_csv = <<>>
    /\ csv_file = <<>>
    /\ IndexIs(EmptyIndex)
    /\ ingested = <<>>
    /\ \E names \in SeqsUpTo(AiValues, MaxAi) : ai_cache = [f \in {FILE_A} |-> AiEntry(names)]
    /\ \E p \in FormProviders, y \in {<<>>, YEAR} :
          form = [k \in FormKeys |->
                     IF k = "provider" THEN p ELSE IF k = "year" THEN y ELSE <<>>]
    /\ sugg_fields = [k \in FieldKeys |->
                         [items |-> <<LEAVE_UNCHANGED, CLEAR_FIELD>>, current |-> 0]]
    /\ last = [op |-> "init", raised |-> FALSE, rows_before |-> 0]

\* populate_ai_from_cache(self.files[self.idx].name) of v1
PopulateFromCache_v1 ==
    /\ sugg_fields' = populate_ai_from_cache_v1(ai_cache, form, files[idx + 1])
    /\ last' = [op |-> "populate_ai_from_cache", raised |-> FALSE, rows_before |-> 0]
    /\ UNCHANGED <<files, idx, page, form, ai_cache, csv_file, ai_cache_csv, ingested>>
    /\ UNCHANGED indexVars

NextSuggV1 == PopulateFromCache_v1

SpecSuggV1 == InitSuggV1 /\ [][NextSuggV1]_vars

\* C22: in v1 the dropdown of each field is ordered: the current field value
\* first, then the leave-unchanged marker, then the clear-field marker, then
\* the AI candidates.
C22_DropdownOrderV1 ==
    last.op = "populate_ai_from_cache" =>
        \A key \in FieldKeys :
            LET cur == current_value_for(form, key)
                candidates == get(get(ai_cache, files[idx + 1], EmptyDict), key, <<>>)
            IN sugg_fields[key].items
                   = (IF cur /= <<>> THEN <<cur>> ELSE <<>>)
                         \o <<LEAVE_UNCHANGED, CLEAR_FIELD>> \o candidates

(***************************************************************************)
(* SpecCache: the AI cache file under save_ai_cache_entry and              *)
(* _load_ai_cache.  A line of the file is its cells, as csv.writer writes  *)
(* and csv.DictReader reads them back.                                     *)
(***************************************************************************)
BAR == <<" ", "|", " ">>

\* str.split(' | ')
RECURSIVE split_bar(_)
split_bar(s) ==
    LET at == {i \in 1..(Len(s) - 2) : SubSeq(s, i, i + 2) = BAR}
    IN IF at = {} THEN <<s>>
       ELSE LET i == CHOOSE k \in at : \A j \in at : k <= j
            IN <<SubSeq(s, 1, i - 1)>> \o split_bar(SubSeq(s, i + 3, Len(s)))

\* the entry _load_ai_cache builds from a line of the file
cache_entry(line) ==
    [key \in FieldKeys |->
        LET i == CHOOSE j \in DOMAIN FIELD_KEYS : FIELD_KEYS[j] = key
            vals == strip(line[i + 1])
        IN IF vals /= <<>>
           THEN [k \in DOMAIN split_bar(vals) |-> strip(split_bar(vals)[k])]
           ELSE <<>>]

\* _load_ai_cache: the cache cleared, then one entry per line with a file name,
\* a later line replacing the entry of an earlier one
RECURSIVE _load_ai_cache(_)
_load_ai_cache(lines) ==
    IF lines = <<>> THEN EmptyDict
    ELSE LET before == _load_ai_cache(SubSeq(lines, 1, Len(lines) - 1))
             line == lines[Len(lines)]
             name == line[1]
         IN IF name = <<>> THEN before
            ELSE [x \in DOMAIN before \cup {name} |->
                     IF x = name THEN cache_entry(line) ELSE before[x]]

A_BAR_B == <<"A", " ", "|", " ", "B">>

\* what extract_entities may return: stripped, non-empty values under some keys
CacheSuggs ==
    { EmptyDict,
      [k \in {"provider"} |-> <<AB_SA>>],
      [k \in {"provider"} |-> <<AB_SA, X>>],
      [k \in {"provider"} |-> <<X, AB_SA, X>>],
      [k \in {"provider", "taxid"} |-> IF k = "provider" THEN <<X>> ELSE <<TAX1, TAX2>>],
      [k \in {"total"} |-> <<A_BAR_B>>] }

InitCache ==
    /\ Construct
    /\ csv_file = <<>>
    /\ IndexIs(EmptyIndex)
    /\ ingested = <<>>
    /\ last = [op |-> "init", saved |-> EmptyDict]

\* save_ai_cache_entry(filename, sugg): the line is appended unless the write
\* raises; saved is the entry last written for each file name
SaveAiCacheEntry ==
    /\ Len(ai_cache_csv) < MaxCacheSaves
    /\ \E filename \in FileNames, sugg \in CacheSuggs, written \in BOOLEAN :
          IF written
          THEN /\ ai_cache_csv' = Append(ai_cache_csv, ai_cache_line(filename, sugg))
               /\ last' = [op |-> "save_ai_cache_entry",
                           saved |-> [x \in DOMAIN last.saved \cup {filename} |->
                                         IF x = filename THEN sugg ELSE last.saved[x]]]
          ELSE /\ ai_cache_csv' = ai_cache_csv
               /\ last' = [op |-> "save_ai_cache_entry", saved |-> last.saved]
    /\ UNCHANGED <<files, idx, page, form, ai_cache, csv_file, sugg_fields, ingested>>
    /\ UNCHANGED indexVars

\* _load_ai_cache()
LoadAiCache ==
    /\ ai_cache' = _load_ai_cache(ai_cache_csv)
    /\ last' = [op |-> "_load_ai_cache", saved |-> last.saved]
    /\ UNCHANGED <<files, idx, page, form, ai_cache_csv, csv_file, sugg_fields, ingested>>
    /\ UNCHANGED indexVars

NextCache == SaveAiCacheEntry \/ LoadAiCache

SpecCache == InitCache /\ [][NextCache]_vars

\* C21: saving an entry with save_ai_cache_entry and reloading with
\* _load_ai_cache gives, for every field of the file name, the candidate
\* strings that were saved, in their order; of several saves of one file name
\* the reloaded entry is the last, as a whole and not merged with earlier ones.
C21_CacheRoundTrip ==
    last.op = "_load_ai_cache" =>
        /\ DOMAIN ai_cache = DOMAIN last.saved
        /\ \A name \in DOMAIN last.saved : \A key \in FieldKeys :
               get(ai_cache[name], key, <<>>) = get(last.saved[name], key, <<>>)

(***************************************************************************)
(* Properties of moving, quarantining and navigating.                      *)
(***************************************************************************)
Moved == last.op = "move_to_dir" /\ ~last.raised

MoveFailed == last.op = "move_to_dir" /\ last.raised

\* C23: when the target of move_to_dir exists the operator is asked to
\* overwrite, auto-rename or cancel, and on cancel nothing is moved, appended
\* or changed; an existing target is never renamed around or overwritten
\* without that choice.
C23_AskedWhenTargetExists ==
    (Moved /\ last.exists) => last.asked

\* C24: every file that move_to_dir moves and removes from the working list has
\* a CSV row appended for it with the current field values, also when writing
\* the CSV fails.
C24_RowForEveryMove ==
    Moved =>
        /\ last.saved
        /\ csv_file /= <<>>
        /\ csv_file[Len(csv_file)] = last.line

\* a step of next_file or prev_file that quarantines nothing
Stepped(op) == last'.op = op /\ files' = files

\* a step that takes the file in the last position out of a list that keeps
\* other files
LastFileRemoved ==
    /\ last'.op \in {"move_to_dir", "quarantine_and_next"}
    /\ Len(files) >= 2
    /\ idx = Len(files) - 1
    /\ Len(files') < Len(files)
    /\ files' /= <<>>

\* C29: after any sequence of load_dir, next_file, prev_file, change_page,
\* move_to_dir, quarantine_and_next and render_current, a non-empty file list
\* has 0 <= idx < len(files) and page >= 0; next_file and prev_file wrap around
\* the list and reset the page to 0; removing the last file of the list resets
\* idx to 0.
C29_IndexInRange ==
    /\ [](files /= <<>> => (idx \in 0..(Len(files) - 1) /\ page >= 0))
    /\ [][/\ Stepped("next_file") =>
                 (idx' = (IF idx = Len(files) - 1 THEN 0 ELSE idx + 1) /\ page' = 0)
          /\ Stepped("prev_file") =>
                 (idx' = (IF idx = 0 THEN Len(files) - 1 ELSE idx - 1) /\ page' = 0)
          /\ LastFileRemoved => idx' = 0]_vars

\* the file in the last position of a two-file list was moved away, and the
\* index went back to the first file
C29_Witness ==
    /\ Moved
    /\ files = <<FILE_A>>
    /\ idx = 0
    /\ page = 0
    /\ last.line[1] = FILE_B

\* C30: when moving the file fails inside move_to_dir, nothing else changes: no
\* CSV row is appended, the record index is not updated, and files, idx and
\* page keep their values.
C30_FailedMoveChangesNothing ==
    [][(last'.op = "move_to_dir" /\ last'.raised) =>
           /\ UNCHANGED <<files, idx, page, csv_file, form, sugg_fields>>
           /\ UNCHANGED indexVars]_vars

\* a move of the second file of a list failed, and the file is still current
C30_Witness ==
    /\ MoveFailed
    /\ files = <<FILE_A, FILE_B>>
    /\ idx = 1
    /\ csv_file = <<>>

(***************************************************************************)
(* SpecRender: one call of render_current, statement by statement.  The    *)
(* call is pending on a file list with an index and a page, over files     *)
(* some of which cannot be opened or rendered (bad); pc is the method      *)
(* about to run, "shown" once a page is on screen and "empty" once the     *)
(* label says that no file is left.  tried counts the files render_current *)
(* has tried, removed holds the files quarantine_and_next took out.        *)
(***************************************************************************)
\* render_current up to its return or its call of quarantine_and_next
render_current_step(nav, bad, ix, cache, f) ==
    IF nav.files = <<>> THEN [nav |-> nav, pc |-> "empty"]
    ELSE LET path == nav.files[nav.idx + 1]
         IN IF path \in bad
            THEN [nav |-> nav, pc |-> "quarantine_and_next"]
            ELSE [nav |-> [nav EXCEPT
                             !.page = Max(0, Min(nav.page, page_count(path) - 1)),
                             !.sugg_fields = populate_ai_from_sources(ix, cache, f, path)],
                  pc |-> "shown"]

\* quarantine_and_next that leaves the file in the list
quarantine_and_next_keeps_file(nav) ==
    IF nav.files = <<>> THEN [nav |-> nav, pc |-> "empty"]
    ELSE [nav |-> [nav EXCEPT !.page = 0], pc |-> "render_current"]

\* quarantine_and_next up to its return or its call of render_current; the
\* pop follows the try block, whether the move to BROKEN raised or not
quarantine_and_next_step(nav) ==
    IF nav.files = <<>> THEN [nav |-> nav, pc |-> "empty"]
    ELSE LET rest == pop(nav.files, nav.idx)
         IN IF rest /= <<>>
            THEN [nav |-> [nav EXCEPT !.files = rest,
                                      !.idx = IF nav.idx >= Len(rest) THEN 0 ELSE nav.idx,
                                      !.page = 0],
                  pc |-> "render_current"]
            ELSE [nav |-> [nav EXCEPT !.files = rest], pc |-> "empty"]

AllFiles == <<FILE_A, FILE_B, FILE_C>>

\* the sorted lists of files of a folder
FileLists ==
    { SelectSeq(AllFiles, LAMBDA x : x \in S) : S \in SUBSET {FILE_A, FILE_B, FILE_C} }

StartPages == {0, 1, 7}

InitRender ==
    /\ files \in FileLists
    /\ idx \in 0..Max(0, Len(files) - 1)
    /\ page \in StartPages
    /\ form = [k \in FormKeys |-> <<>>]
    /\ ai_cache = EmptyDict
    /\ ai_cache_csv = <<>>
    /\ sugg_fields = [k \in FieldKeys |->
                         [items |-> <<LEAVE_UNCHANGED, CLEAR_FIELD>>, current |-> 0]]
    /\ csv_file = <<>>
    /\ IndexIs(EmptyIndex)
    /\ ingested = <<>>
    /\ \E bad \in SUBSET {FILE_A, FILE_B, FILE_C} :
          last = [op |-> "call", pc |-> "render_current", bad |-> bad, start |-> files,
                  tried |-> 0, removed |-> {}, move_raised |-> FALSE]

RenderCurrent ==
    /\ last.pc = "render_current"
    /\ LET r == render_current_step(Nav, last.bad, Index, ai_cache, form)
       IN /\ SetNav(r.nav)
          /\ last' = [last EXCEPT !.op = "render_current", !.pc = r.pc,
                                  !.tried = IF files /= <<>> THEN @ + 1 ELSE @]
    /\ UNCHANGED <<form, ai_cache, csv_file, ai_cache_csv, ingested>>
    /\ UNCHANGED indexVars

QuarantineAndNextStep ==
    /\ last.pc = "quarantine_and_next"
    /\ \E move_raised \in BOOLEAN :
          LET r == quarantine_and_next_step(Nav)
          IN /\ SetNav(r.nav)
             /\ last' = [last EXCEPT !.op = "quarantine_and_next", !.pc = r.pc,
                                     !.removed = @ \cup {files[idx + 1]},
                                     !.move_raised = move_raised]
    /\ UNCHANGED <<form, ai_cache, csv_file, ai_cache_csv, ingested>>
    /\ UNCHANGED indexVars

NextRender == RenderCurrent \/ QuarantineAndNextStep

\* the handler runs on until it returns
SpecRender == InitRender /\ [][NextRender]_vars /\ WF_vars(NextRender)

Returned == last.pc \in {"shown", "empty"}

====
